---- MODULE Spec2Model ----
(***************************************************************************)
(* Building evacuation system: the grid pathfinding library                *)
(* (web_prototype/src/app/services/pathfinding.service.ts) and the         *)
(* building simulation that re-plans with it (building.service.ts).        *)
(*                                                                         *)
(* Positions are triples <<x, y, floor>>, 0-based as in the code.  A       *)
(* building map is the nested array buildingMap[x][y][floor] of the cell    *)
(* kinds of the CellType enum.  Costs are numbers of the code multiplied   *)
(* by 10^6 (1.0 is 1000000, 1.414 is 1414000), so that sums and            *)
(* comparisons of fCost are exact integer comparisons.                     *)
(***************************************************************************)
EXTENDS Integers, Sequences, FiniteSets, TLC

\* ---------------------------------------------------------------- bounds
\* dimensions of the maps handed to the pathfinding functions
GridW == 3
GridH == 2
GridF == 2
\* at most this many cells of a map differ from the open two-staircase room
MaxBlocked == 1
\* the loop counts handed to the randomized functions (iterations, antCount,
\* populationSize, generations, swarmSize) are at most MaxRounds, their
\* step limits (maxSteps, the swarm's iterations) at most MaxSteps
MaxRounds == 2
MaxSteps == 3
\* dimensions of the building the simulation runs in
BuildW == 6
BuildH == 6
BuildF == 1
\* at most MaxPeople people are in the building, the timer ticks at most
\* MaxTicks times between two resets, at most MaxFire cells burn (startFire
\* is called, and the fire spreads, only up to that number), and at most
\* MaxOrphans timer subscriptions are left running without a reference (a
\* subscription is left behind only in a building without people, and people
\* are added only while none is left behind)
MaxPeople == 1
MaxTicks == 2
MaxFire == 2
MaxOrphans == 1
\* the longest path handed to calculatePathStats
MaxPathLen == 3

\* ------------------------------------------------------------- CellType
WALKABLE == 0
WALL == 1
FIRE == 2
STAIRS == 3
EXIT == 4

CellTypes == {WALKABLE, WALL, FIRE, STAIRS, EXIT}

\* JavaScript's Infinity: above every cost of the model
Infinity == 2147483647
\* null, and a thrown TypeError: values that are no path (their elements are
\* not positions)
Null == << <<>> >>
TypeError == << <<>>, <<>> >>

VARIABLES
    buildingMap,   \* number[][][]: buildingMap[x][y][floor] is a CellType
    start,         \* argument of the pathfinding call
    goal,          \* argument of the pathfinding call
    algorithm,     \* name of the function called last, "none" before a call
    args,          \* its arguments after buildingMap, as a sequence
    result,        \* what it returned: a path or Null, TypeError when it threw
    \* BuildingService
    firePositions,          \* Set<string>: the keys of the burning cells
    people,                 \* Person[]
    timestep,
    isSimulationRunning,
    simulationSubscription, \* "undefined", or the subscription "open"/"closed"
    orphanedTimers,         \* interval subscriptions still open that the
                            \* service holds no reference to any more
    tickTrace,              \* what the phases of the tick performed last saw
                            \* and left (NoTick after any other operation)
    raised                  \* the Error the operation performed last threw
                            \* (NoError when it returned)

pathVars == <<start, goal, algorithm, args, result>>
serviceVars == <<firePositions, people, timestep, isSimulationRunning,
                 simulationSubscription, orphanedTimers, tickTrace, raised>>
vars == <<buildingMap, pathVars, serviceVars>>

\* ------------------------------------------------------------ positions
\* buildingMap[x][y][floor] of the code: sequences are 1-based, the code's
\* indices 0-based
Cell(map, x, y, floor) == map[x + 1][y + 1][floor + 1]
CellAt(map, pos) == map[pos[1] + 1][pos[2] + 1][pos[3] + 1]
\* buildingMap.length, buildingMap[0].length, buildingMap[0][0].length
Width(map) == Len(map)
Height(map) == Len(map[1])
FloorCount(map) == Len(map[1][1])

Positions(w, h, f) == (0..(w - 1)) \X (0..(h - 1)) \X (0..(f - 1))
MapPositions(map) == Positions(Width(map), Height(map), FloorCount(map))

\* positionsEqual: component-wise equality
positionsEqual(pos1, pos2) ==
    pos1[1] = pos2[1] /\ pos1[2] = pos2[2] /\ pos1[3] = pos2[3]

\* positionToKey / keyToPosition: the key "x,y,floor" is modelled by the
\* triple of its three numbers; parsing the key gives the position back
positionToKey(position) == <<position[1], position[2], position[3]>>
keyToPosition(key) == <<key[1], key[2], key[3]>>

\* isValidMapPosition: inside the bounds of the map
isValidMapPosition(x, y, floor, map) ==
    /\ x >= 0 /\ x < Width(map)
    /\ y >= 0 /\ y < Height(map)
    /\ floor >= 0 /\ floor < FloorCount(map)

\* isValidPosition without the exclusion of Fire: what the check would be had
\* it tested for "not a Wall"
isValidPositionNotWall(x, y, floor, map) ==
    IF ~isValidMapPosition(x, y, floor, map) THEN FALSE
    ELSE Cell(map, x, y, floor) # WALL

\* isValidPosition: in bounds and Walkable, Stairs or Exit (Fire excluded)
isValidPosition(x, y, floor, map) ==
    IF ~isValidMapPosition(x, y, floor, map) THEN FALSE
    ELSE LET cellType == Cell(map, x, y, floor)
         IN cellType = WALKABLE \/ cellType = STAIRS \/ cellType = EXIT

\* the directions array of getNeighbors, in its order
directions ==
    << <<-1, -1>>, <<-1, 0>>, <<-1, 1>>,
       <<0, -1>>,             <<0, 1>>,
       <<1, -1>>,  <<1, 0>>,  <<1, 1>> >>

RECURSIVE SeqFilter(_, _, _)
\* the elements s[i..Len(s)] for which keep[i] holds, in order
SeqFilter(s, keep, i) ==
    IF i > Len(s) THEN <<>>
    ELSE (IF keep[i] THEN <<s[i]>> ELSE <<>>) \o SeqFilter(s, keep, i + 1)

\* getNeighbors with a move to the floor below and above from every cell, onto
\* any cell a person can stand on
getNeighborsThroughFloors(position, map) ==
    LET x == position[1]
        y == position[2]
        floor == position[3]
        moved == [i \in 1..Len(directions) |->
                    <<x + directions[i][1], y + directions[i][2], floor>>]
        ok == [i \in 1..Len(directions) |->
                 isValidPosition(moved[i][1], moved[i][2], floor, map)]
        newFloors == <<floor - 1, floor + 1>>
        floorOk == [i \in 1..2 |-> isValidPosition(x, y, newFloors[i], map)]
    IN SeqFilter(moved, ok, 1)
       \o SeqFilter([i \in 1..2 |-> <<x, y, newFloors[i]>>], floorOk, 1)

\* getNeighbors: the valid same-floor neighbours in the order of directions,
\* then, from a Stairs cell, the Stairs cells right below and right above
getNeighbors(position, map) ==
    LET x == position[1]
        y == position[2]
        floor == position[3]
        moved == [i \in 1..Len(directions) |->
                    <<x + directions[i][1], y + directions[i][2], floor>>]
        ok == [i \in 1..Len(directions) |->
                 isValidPosition(moved[i][1], moved[i][2], floor, map)]
        flat == SeqFilter(moved, ok, 1)
        newFloors == <<floor - 1, floor + 1>>
        stairOk == [i \in 1..2 |->
                      /\ Cell(map, x, y, floor) = STAIRS
                      /\ newFloors[i] >= 0 /\ newFloors[i] < FloorCount(map)
                      /\ Cell(map, x, y, newFloors[i]) = STAIRS]
        stairs == SeqFilter([i \in 1..2 |-> <<x, y, newFloors[i]>>], stairOk, 1)
    IN flat \o stairs

Abs(n) == IF n < 0 THEN -n ELSE n

\* Math.sqrt(n) * 10^6, rounded, for the sums of squares the heuristic forms
MathSqrt(n) ==
    CASE n = 0 -> 0 [] n = 1 -> 1000000 [] n = 2 -> 1414214
      [] n = 4 -> 2000000 [] n = 5 -> 2236068 [] n = 8 -> 2828427
      [] n = 9 -> 3000000 [] n = 10 -> 3162278 [] n = 13 -> 3605551
      [] n = 16 -> 4000000 [] n = 17 -> 4123106 [] n = 18 -> 4242641
      [] n = 20 -> 4472136 [] n = 25 -> 5000000 [] n = 32 -> 5656854
      [] n = 100 -> 10000000 [] n = 101 -> 10049876 [] n = 102 -> 10099505
      [] n = 104 -> 10198039 [] n = 105 -> 10246951 [] n = 108 -> 10392305
      [] n = 109 -> 10440307 [] n = 110 -> 10488088 [] n = 113 -> 10630146
      [] n = 116 -> 10770330 [] n = 117 -> 10816654 [] n = 118 -> 10862780
      [] n = 120 -> 10954451 [] n = 125 -> 11180340 [] n = 132 -> 11489125
      [] n = 400 -> 20000000 [] n = 401 -> 20024984 [] n = 402 -> 20049938
      [] n = 404 -> 20099751 [] n = 405 -> 20124612 [] n = 408 -> 20199010
      [] n = 409 -> 20223748 [] n = 410 -> 20248457 [] n = 413 -> 20322401
      [] n = 416 -> 20396078 [] n = 417 -> 20420578 [] n = 418 -> 20445048
      [] n = 420 -> 20493902 [] n = 425 -> 20615528 [] n = 432 -> 20784610
      [] n = 900 -> 30000000 [] n = 901 -> 30016662 [] n = 902 -> 30033315
      [] n = 904 -> 30066593 [] n = 905 -> 30083218 [] n = 908 -> 30133038
      [] n = 909 -> 30149627 [] n = 910 -> 30166206 [] n = 913 -> 30215890
      [] n = 916 -> 30265492 [] n = 917 -> 30282008 [] n = 918 -> 30298515
      [] n = 920 -> 30331502 [] n = 925 -> 30413813 [] n = 932 -> 30528675

\* calculateHeuristic: 3D Euclidean distance, floor difference times 10
calculateHeuristic(pos1, pos2) ==
    LET dx == pos2[1] - pos1[1]
        dy == pos2[2] - pos1[2]
        dz == (pos2[3] - pos1[3]) * 10
    IN MathSqrt(dx * dx + dy * dy + dz * dz)

\* getMovementCost: 1.0, or 1.414 on a diagonal, plus 5.0 on a floor change
getMovementCost(pos1, pos2) ==
    LET dx == Abs(pos2[1] - pos1[1])
        dy == Abs(pos2[2] - pos1[2])
        dz == Abs(pos2[3] - pos1[3])
        cost == IF dx + dy = 2 THEN 1414000 ELSE 1000000
    IN IF dz > 0 THEN cost + 5000000 ELSE cost

\* ------------------------------------------------------- search nodes
\* PathNode: position, optional parent (the field is absent on the start
\* node), gCost, hCost, fCost
StartNode(pos, g, h, f) == [position |-> pos, gCost |-> g, hCost |-> h, fCost |-> f]
ChildNode(pos, parent, g, h, f) ==
    [position |-> pos, parent |-> parent, gCost |-> g, hCost |-> h, fCost |-> f]

RECURSIVE reconstructPathWithoutStart(_)
\* reconstructPath stopping at the node without parent before its position
\* is taken
reconstructPathWithoutStart(node) ==
    IF "parent" \in DOMAIN node
    THEN reconstructPathWithoutStart(node.parent) \o <<node.position>>
    ELSE <<>>

RECURSIVE reconstructPath(_)
\* reconstructPath: walk the parent references, unshifting each position
reconstructPath(node) ==
    IF "parent" \in DOMAIN node
    THEN reconstructPath(node.parent) \o <<node.position>>
    ELSE <<node.position>>

RECURSIVE InsertByFCost(_, _)
\* node placed behind every element whose fCost is not greater
InsertByFCost(sorted, node) ==
    IF sorted = <<>> THEN <<node>>
    ELSE IF Head(sorted).fCost <= node.fCost
         THEN <<Head(sorted)>> \o InsertByFCost(Tail(sorted), node)
         ELSE <<node>> \o sorted

RECURSIVE SortByFCost(_)
\* openSet.sort((a, b) => a.fCost - b.fCost): ascending, equal keys keep
\* their order (Array.prototype.sort is stable)
SortByFCost(openSet) ==
    IF openSet = <<>> THEN <<>>
    ELSE InsertByFCost(SortByFCost(SubSeq(openSet, 1, Len(openSet) - 1)),
                       openSet[Len(openSet)])

\* openSet.find(node => positionsEqual(node.position, pos)): index or 0
FindIndex(openSet, pos) ==
    IF \E i \in 1..Len(openSet) : positionsEqual(openSet[i].position, pos)
    THEN CHOOSE i \in 1..Len(openSet) :
            /\ positionsEqual(openSet[i].position, pos)
            /\ \A j \in 1..(i - 1) : ~positionsEqual(openSet[j].position, pos)
    ELSE 0

\* ------------------------------------------------------------------ A*
RECURSIVE AStarRelax(_, _, _, _, _, _, _)
\* the loop over the neighbours of currentNode (lines 70-104)
AStarRelax(openSet, closedSet, neighbors, i, currentNode, goalPos, map) ==
    IF i > Len(neighbors) THEN openSet
    ELSE
      LET neighborPos == neighbors[i]
          neighborKey == positionToKey(neighborPos)
      IN IF neighborKey \in closedSet
         THEN AStarRelax(openSet, closedSet, neighbors, i + 1, currentNode, goalPos, map)
         ELSE
           LET gCost == currentNode.gCost + getMovementCost(currentNode.position, neighborPos)
               hCost == calculateHeuristic(neighborPos, goalPos)
               fCost == gCost + hCost
               k == FindIndex(openSet, neighborPos)
               next ==
                 IF k = 0
                 THEN Append(openSet, ChildNode(neighborPos, currentNode, gCost, hCost, fCost))
                 ELSE IF gCost < openSet[k].gCost
                      THEN [openSet EXCEPT ![k] =
                              ChildNode(neighborPos, currentNode, gCost, openSet[k].hCost, fCost)]
                      ELSE openSet
           IN AStarRelax(next, closedSet, neighbors, i + 1, currentNode, goalPos, map)

RECURSIVE AStarLoop(_, _, _, _)
\* the while loop of findPathAStar (lines 53-105)
AStarLoop(openSet, closedSet, goalPos, map) ==
    IF Len(openSet) = 0 THEN Null
    ELSE
      LET sorted == SortByFCost(openSet)
          currentNode == Head(sorted)
          currentKey == positionToKey(currentNode.position)
      IN IF positionsEqual(currentNode.position, goalPos)
         THEN reconstructPath(currentNode)
         ELSE
           LET closed2 == closedSet \cup {currentKey}
               neighbors == getNeighbors(currentNode.position, map)
           IN AStarLoop(AStarRelax(Tail(sorted), closed2, neighbors, 1,
                                   currentNode, goalPos, map),
                        closed2, goalPos, map)

\* findPathAStar(start, goal, buildingMap)
findPathAStar(startPos, goalPos, map) ==
    LET h == calculateHeuristic(startPos, goalPos)
    IN AStarLoop(<<StartNode(startPos, 0, h, 0 + h)>>, {}, goalPos, map)

\* ------------------------------------------------------------ Dijkstra
\* m.get(key) || dflt of JavaScript: dflt when the key is missing or its
\* value is 0 (0 is falsy)
GetOr(m, key, dflt) ==
    IF key \in DOMAIN m /\ m[key] # 0 THEN m[key] ELSE dflt
\* Map.set
MapSet(m, key, value) == [k \in DOMAIN m \cup {key} |-> IF k = key THEN value ELSE m[k]]

\* the keys of the Walkable, Stairs and Exit cells in the order of the three
\* nested loops (x, then y, then floor): the insertion order of unvisited
RECURSIVE OpenCells(_, _, _, _)
OpenCells(map, x, y, floor) ==
    IF x >= Width(map) THEN <<>>
    ELSE IF y >= Height(map) THEN OpenCells(map, x + 1, 0, 0)
    ELSE IF floor >= FloorCount(map) THEN OpenCells(map, x, y + 1, 0)
    ELSE (IF Cell(map, x, y, floor) \in {WALKABLE, STAIRS, EXIT}
          THEN <<positionToKey(<<x, y, floor>>)>> ELSE <<>>)
         \o OpenCells(map, x, y, floor + 1)

RECURSIVE DijkstraMin(_, _, _, _, _)
\* the scan for the unvisited key of minimum distance (lines 143-152);
\* unvisited is kept in insertion order; "" is modelled by <<>>
DijkstraMin(unvisited, distances, i, currentKey, minDistance) ==
    IF i > Len(unvisited) THEN currentKey
    ELSE LET distance == GetOr(distances, unvisited[i], Infinity)
         IN IF distance < minDistance
            THEN DijkstraMin(unvisited, distances, i + 1, unvisited[i], distance)
            ELSE DijkstraMin(unvisited, distances, i + 1, currentKey, minDistance)

RECURSIVE reconstructPathDijkstra(_, _, _, _)
\* reconstructPathDijkstra: follow previous from the goal, stop at the start
\* or where previous has no entry, then put the start in front
reconstructPathDijkstra(startPos, current, previous, path) ==
    IF positionsEqual(current, startPos) THEN <<startPos>> \o path
    ELSE IF positionToKey(current) \notin DOMAIN previous
         THEN <<startPos, current>> \o path
         ELSE reconstructPathDijkstra(startPos, previous[positionToKey(current)],
                                      previous, <<current>> \o path)

RECURSIVE DijkstraRelax(_, _, _, _, _, _, _)
\* the loop over the neighbours (lines 167-179): <<distances, previous>>
DijkstraRelax(unvisited, distances, previous, neighbors, i, currentKey, currentPos) ==
    IF i > Len(neighbors) THEN <<distances, previous>>
    ELSE
      LET neighborPos == neighbors[i]
          neighborKey == positionToKey(neighborPos)
      IN IF ~(\E j \in 1..Len(unvisited) : unvisited[j] = neighborKey)
         THEN DijkstraRelax(unvisited, distances, previous, neighbors, i + 1, currentKey, currentPos)
         ELSE
           LET altDistance == GetOr(distances, currentKey, 0)
                              + getMovementCost(currentPos, neighborPos)
           IN IF altDistance < GetOr(distances, neighborKey, Infinity)
              THEN DijkstraRelax(unvisited, MapSet(distances, neighborKey, altDistance),
                                 MapSet(previous, neighborKey, currentPos),
                                 neighbors, i + 1, currentKey, currentPos)
              ELSE DijkstraRelax(unvisited, distances, previous, neighbors, i + 1,
                                 currentKey, currentPos)

RECURSIVE DijkstraLoop(_, _, _, _, _, _)
\* the while loop of findPathDijkstra (lines 141-180)
DijkstraLoop(unvisited, distances, previous, startPos, goalPos, map) ==
    IF Len(unvisited) = 0 THEN Null
    ELSE
      LET currentKey == DijkstraMin(unvisited, distances, 1, <<>>, Infinity)
      IN IF currentKey = <<>> THEN Null
         ELSE
           LET currentPos == keyToPosition(currentKey)
           IN IF positionsEqual(currentPos, goalPos)
              THEN reconstructPathDijkstra(startPos, goalPos, previous, <<>>)
              ELSE
                LET left == SelectSeq(unvisited, LAMBDA k : k # currentKey)
                    dp == DijkstraRelax(left, distances, previous,
                                        getNeighbors(currentPos, map), 1,
                                        currentKey, currentPos)
                IN DijkstraLoop(left, dp[1], dp[2], startPos, goalPos, map)

\* findPathDijkstra(start, goal, buildingMap)
findPathDijkstra(startPos, goalPos, map) ==
    LET unvisited == OpenCells(map, 0, 0, 0)
        distances == [k \in {unvisited[i] : i \in 1..Len(unvisited)} |-> Infinity]
    IN DijkstraLoop(unvisited, MapSet(distances, positionToKey(startPos), 0),
                    <<>>, startPos, goalPos, map)

\* ------------------------------------------------------------ BFS, DFS
\* a queue or stack entry {pos, path}
Entry(pos, path) == [pos |-> pos, path |-> path]

\* the entries pushed for the neighbours not yet visited (lines 425-429)
PushUnvisited(neighbors, visited, path) ==
    LET keep == [i \in 1..Len(neighbors) |-> positionToKey(neighbors[i]) \notin visited]
        kept == SeqFilter(neighbors, keep, 1)
    IN [i \in 1..Len(kept) |-> Entry(kept[i], Append(path, kept[i]))]

RECURSIVE BFSLoopTakingLast(_, _, _, _)
\* the loop of findPathBFS with queue.pop() in the place of queue.shift()
BFSLoopTakingLast(queue, visited, goalPos, map) ==
    IF Len(queue) = 0 THEN Null
    ELSE
      LET pos == queue[Len(queue)].pos
          path == queue[Len(queue)].path
          rest == SubSeq(queue, 1, Len(queue) - 1)
          key == positionToKey(pos)
      IN IF positionsEqual(pos, goalPos) THEN path
         ELSE IF key \in visited THEN BFSLoopTakingLast(rest, visited, goalPos, map)
         ELSE LET visited2 == visited \cup {key}
              IN BFSLoopTakingLast(
                     rest \o PushUnvisited(getNeighbors(pos, map), visited2, path),
                     visited2, goalPos, map)

RECURSIVE BFSLoop(_, _, _, _)
\* the while loop of findPathBFS: queue.shift() takes the head
BFSLoop(queue, visited, goalPos, map) ==
    IF Len(queue) = 0 THEN Null
    ELSE
      LET pos == Head(queue).pos
          path == Head(queue).path
          key == positionToKey(pos)
      IN IF positionsEqual(pos, goalPos) THEN path
         ELSE IF key \in visited THEN BFSLoop(Tail(queue), visited, goalPos, map)
         ELSE LET visited2 == visited \cup {key}
              IN BFSLoop(Tail(queue) \o PushUnvisited(getNeighbors(pos, map), visited2, path),
                         visited2, goalPos, map)

\* findPathBFS(start, goal, buildingMap)
findPathBFS(startPos, goalPos, map) ==
    BFSLoop(<<Entry(startPos, <<startPos>>)>>, {}, goalPos, map)

RECURSIVE DFSLoop(_, _, _, _)
\* the while loop of findPathDFS: stack.pop() takes the last element
DFSLoop(stack, visited, goalPos, map) ==
    IF Len(stack) = 0 THEN Null
    ELSE
      LET pos == stack[Len(stack)].pos
          path == stack[Len(stack)].path
          rest == SubSeq(stack, 1, Len(stack) - 1)
          key == positionToKey(pos)
      IN IF positionsEqual(pos, goalPos) THEN path
         ELSE IF key \in visited THEN DFSLoop(rest, visited, goalPos, map)
         ELSE LET visited2 == visited \cup {key}
              IN DFSLoop(rest \o PushUnvisited(getNeighbors(pos, map), visited2, path),
                         visited2, goalPos, map)

\* findPathDFS(start, goal, buildingMap)
findPathDFS(startPos, goalPos, map) ==
    DFSLoop(<<Entry(startPos, <<startPos>>)>>, {}, goalPos, map)

\* --------------------------------------------------- Greedy Best-First
RECURSIVE GreedyPush(_, _, _, _, _, _)
\* the loop over the neighbours (lines 476-490): push when not closed and
\* no node of openSet has the position
GreedyPush(openSet, closedSet, neighbors, i, currentNode, goalPos) ==
    IF i > Len(neighbors) THEN openSet
    ELSE
      LET neighborPos == neighbors[i]
          hCost == calculateHeuristic(neighborPos, goalPos)
      IN IF positionToKey(neighborPos) \in closedSet
         THEN GreedyPush(openSet, closedSet, neighbors, i + 1, currentNode, goalPos)
         ELSE IF FindIndex(openSet, neighborPos) = 0
         THEN GreedyPush(Append(openSet, ChildNode(neighborPos, currentNode, 0, hCost, hCost)),
                         closedSet, neighbors, i + 1, currentNode, goalPos)
         ELSE GreedyPush(openSet, closedSet, neighbors, i + 1, currentNode, goalPos)

RECURSIVE GreedyLoop(_, _, _, _)
\* the while loop of findPathGreedyBestFirst (lines 469-491)
GreedyLoop(openSet, closedSet, goalPos, map) ==
    IF Len(openSet) = 0 THEN Null
    ELSE
      LET sorted == SortByFCost(openSet)
          currentNode == Head(sorted)
      IN IF positionsEqual(currentNode.position, goalPos)
         THEN reconstructPath(currentNode)
         ELSE
           LET closed2 == closedSet \cup {positionToKey(currentNode.position)}
           IN GreedyLoop(GreedyPush(Tail(sorted), closed2,
                                    getNeighbors(currentNode.position, map), 1,
                                    currentNode, goalPos),
                         closed2, goalPos, map)

\* findPathGreedyBestFirst(start, goal, buildingMap)
findPathGreedyBestFirst(startPos, goalPos, map) ==
    LET h == calculateHeuristic(startPos, goalPos)
    IN GreedyLoop(<<StartNode(startPos, 0, h, h)>>, {}, goalPos, map)

\* -------------------------------------------------------- Bidirectional
\* pathG.slice(0, -1).reverse(): all but the last element, reversed
SliceReverse(path) ==
    [i \in 1..(Len(path) - 1) |-> path[Len(path) - i]]

RECURSIVE BidiExpand(_, _, _, _, _, _, _)
\* one expansion loop (lines 508-519 from the start, 522-532 from the goal):
\* own/queue are the expanding side's visited map and queue, other the
\* opposite side's visited map; the result is [found, path, own, queue]
BidiExpand(neighbors, i, ownPath, own, queue, other, fromStart) ==
    IF i > Len(neighbors) THEN [found |-> FALSE, path |-> Null, own |-> own, queue |-> queue]
    ELSE
      LET neighbor == neighbors[i]
          key == positionToKey(neighbor)
      IN IF key \in DOMAIN own
         THEN BidiExpand(neighbors, i + 1, ownPath, own, queue, other, fromStart)
         ELSE
           LET own2 == MapSet(own, key, Append(ownPath, neighbor))
               queue2 == Append(queue, Entry(neighbor, Append(ownPath, neighbor)))
           IN IF key \in DOMAIN other
              THEN [found |-> TRUE,
                    path |-> IF fromStart
                             THEN ownPath \o SliceReverse(other[key])
                             ELSE other[key] \o SliceReverse(ownPath),
                    own |-> own2, queue |-> queue2]
              ELSE BidiExpand(neighbors, i + 1, ownPath, own2, queue2, other, fromStart)

RECURSIVE BidiLoop(_, _, _, _, _)
\* the while loop of findPathBidirectional (lines 505-533)
BidiLoop(queueStart, queueGoal, visitedStart, visitedGoal, map) ==
    IF ~(Len(queueStart) > 0 /\ Len(queueGoal) > 0) THEN Null
    ELSE
      LET s == BidiExpand(getNeighbors(Head(queueStart).pos, map), 1,
                          Head(queueStart).path, visitedStart, Tail(queueStart),
                          visitedGoal, TRUE)
      IN IF s.found THEN s.path
         ELSE
           LET g == BidiExpand(getNeighbors(Head(queueGoal).pos, map), 1,
                               Head(queueGoal).path, visitedGoal, Tail(queueGoal),
                               s.own, FALSE)
           IN IF g.found THEN g.path
              ELSE BidiLoop(s.queue, g.queue, s.own, g.own, map)

\* findPathBidirectional(start, goal, buildingMap)
findPathBidirectional(startPos, goalPos, map) ==
    BidiLoop(<<Entry(startPos, <<startPos>>)>>, <<Entry(goalPos, <<goalPos>>)>>,
             MapSet(<<>>, positionToKey(startPos), <<startPos>>),
             MapSet(<<>>, positionToKey(goalPos), <<goalPos>>), map)

\* ------------------------------------------- JPS, Theta*, Fringe Search
\* placeholders that forward to A*
findPathJPS(startPos, goalPos, map) == findPathAStar(startPos, goalPos, map)
findPathThetaStar(startPos, goalPos, map) == findPathAStar(startPos, goalPos, map)
findPathFringe(startPos, goalPos, map) == findPathAStar(startPos, goalPos, map)

\* ----------------------------------------------------------- Weighted A*
\* hCost * weight, the weight given in thousandths (2.0 is 2000); split so
\* that no intermediate product leaves the 32-bit integers
TimesWeight(hCost, weight) ==
    (hCost \div 1000) * weight + ((hCost % 1000) * weight) \div 1000

RECURSIVE WeightedRelax(_, _, _, _, _, _, _)
\* the loop over the neighbours (lines 599-622)
WeightedRelax(openSet, closedSet, neighbors, i, currentNode, goalPos, weight) ==
    IF i > Len(neighbors) THEN openSet
    ELSE
      LET neighborPos == neighbors[i]
          neighborKey == positionToKey(neighborPos)
      IN IF neighborKey \in closedSet
         THEN WeightedRelax(openSet, closedSet, neighbors, i + 1, currentNode, goalPos, weight)
         ELSE
           LET gCost == currentNode.gCost + getMovementCost(currentNode.position, neighborPos)
               hCost == calculateHeuristic(neighborPos, goalPos)
               fCost == gCost + TimesWeight(hCost, weight)
               k == FindIndex(openSet, neighborPos)
               next ==
                 IF k = 0
                 THEN Append(openSet, ChildNode(neighborPos, currentNode, gCost, hCost, fCost))
                 ELSE IF gCost < openSet[k].gCost
                      THEN [openSet EXCEPT ![k] =
                              ChildNode(neighborPos, currentNode, gCost, openSet[k].hCost, fCost)]
                      ELSE openSet
           IN WeightedRelax(next, closedSet, neighbors, i + 1, currentNode, goalPos, weight)

RECURSIVE WeightedLoop(_, _, _, _, _)
\* the while loop of findPathAStarWeighted (lines 592-623)
WeightedLoop(openSet, closedSet, goalPos, map, weight) ==
    IF Len(openSet) = 0 THEN Null
    ELSE
      LET sorted == SortByFCost(openSet)
          currentNode == Head(sorted)
      IN IF positionsEqual(currentNode.position, goalPos)
         THEN reconstructPath(currentNode)
         ELSE
           LET closed2 == closedSet \cup {positionToKey(currentNode.position)}
           IN WeightedLoop(WeightedRelax(Tail(sorted), closed2,
                                         getNeighbors(currentNode.position, map), 1,
                                         currentNode, goalPos, weight),
                           closed2, goalPos, map, weight)

\* findPathAStarWeighted(start, goal, buildingMap, weight), weight in thousandths
findPathAStarWeighted(startPos, goalPos, map, weight) ==
    LET h == calculateHeuristic(startPos, goalPos)
    IN WeightedLoop(<<StartNode(startPos, 0, h, 0 + TimesWeight(h, weight))>>,
                    {}, goalPos, map, weight)

\* ----------------------------------------------------------- Anytime A*
Max(a, b) == IF a > b THEN a ELSE b

RECURSIVE AnytimeLoop(_, _, _, _, _, _)
\* the while loop of findPathAnytimeAStar (lines 569-574).  The loop test
\* compares the clock with timeLimitMs: the time that has passed since
\* startTime is any number of milliseconds >= 0, so with a limit > 0 each
\* test can pass or fail and with a limit <= 0 it fails.  The result is the
\* set of the values the function can return.
AnytimeLoop(startPos, goalPos, map, bestPath, epsilon, timeLimitMs) ==
    IF timeLimitMs <= 0 THEN {bestPath}
    ELSE {bestPath} \cup
         LET path == findPathAStarWeighted(startPos, goalPos, map, epsilon)
             best2 == IF path # Null THEN path ELSE bestPath
         IN IF epsilon <= 1000 THEN {best2}
            ELSE AnytimeLoop(startPos, goalPos, map, best2,
                             Max(1000, (epsilon * 8) \div 10), timeLimitMs)

RECURSIVE AnytimeEpsilons(_)
\* the weights, in thousandths, of the searches the loop runs from epsilon on
\* when no loop test fails: epsilon = Math.max(1.0, epsilon * 0.8) until
\* epsilon <= 1.0 breaks the loop
AnytimeEpsilons(epsilon) ==
    IF epsilon <= 1000 THEN <<epsilon>>
    ELSE <<epsilon>> \o AnytimeEpsilons(Max(1000, (epsilon * 8) \div 10))

\* findPathAnytimeAStar(start, goal, buildingMap, timeLimitMs): every value it
\* can return
findPathAnytimeAStar(startPos, goalPos, map, timeLimitMs) ==
    AnytimeLoop(startPos, goalPos, map, Null, 2000, timeLimitMs)

\* ---------------------------------------------------------- Random Walk
\* Math.random() makes the functions below relations: each is modelled by
\* the set of the values it can return.
SeqToSet(s) == {s[i] : i \in 1..Len(s)}

RECURSIVE RandomWalkFrom(_, _, _, _, _, _, _)
\* the for loop of findPathRandomWalk (lines 716-723) from iteration i
RandomWalkFrom(current, path, visited, i, maxSteps, goalPos, map) ==
    IF i >= maxSteps THEN {Null}
    ELSE IF positionsEqual(current, goalPos) THEN {path}
    ELSE
      LET neighbors == {n \in SeqToSet(getNeighbors(current, map)) :
                           positionToKey(n) \notin visited}
      IN IF neighbors = {} THEN {Null}
         ELSE UNION { RandomWalkFrom(n, Append(path, n), visited \cup {positionToKey(n)},
                                     i + 1, maxSteps, goalPos, map) : n \in neighbors }

\* findPathRandomWalk(start, goal, buildingMap, maxSteps): every value it can
\* return
findPathRandomWalk(startPos, goalPos, map, maxSteps) ==
    RandomWalkFrom(startPos, <<startPos>>, {positionToKey(startPos)}, 0, maxSteps,
                   goalPos, map)

\* ------------------------------------------------------------------ ACO
\* bestPath after one more ant whose walk returned path (lines 636-639);
\* bestLength is bestPath.length, Infinity while bestPath is null
PathLength(p) == IF p = Null THEN Infinity ELSE Len(p)
KeepShorter(bestPath, path) ==
    IF path # Null /\ Len(path) < PathLength(bestPath) THEN path ELSE bestPath

RECURSIVE ACOLoop(_, _, _)
\* the values bestPath can have after `runs` more ants, from the set bests
ACOLoop(bests, walks, runs) ==
    IF runs = 0 THEN bests
    ELSE ACOLoop({KeepShorter(b, w) : b \in bests, w \in walks}, walks, runs - 1)

\* findPathACO(start, goal, buildingMap, iterations, antCount): every value it
\* can return; each ant is a random walk of at most 100 steps
findPathACO(startPos, goalPos, map, iterations, antCount) ==
    ACOLoop({Null}, findPathRandomWalk(startPos, goalPos, map, 100),
            iterations * antCount)

\* ---------------------------------------------------------------- Swarm
RECURSIVE SwarmAgent(_, _, _, _, _, _)
\* the inner loop of findPathSwarm (lines 694-700) from iteration j: the
\* <<agentPos, path>> an agent can end with
SwarmAgent(agentPos, path, j, iterations, goalPos, map) ==
    IF j >= iterations THEN {<<agentPos, path>>}
    ELSE
      LET neighbors == getNeighbors(agentPos, map)
      IN IF Len(neighbors) = 0 THEN {<<agentPos, path>>}
         ELSE UNION { IF positionsEqual(n, goalPos)
                      THEN {<<n, Append(path, n)>>}
                      ELSE SwarmAgent(n, Append(path, n), j + 1, iterations, goalPos, map)
                      : n \in SeqToSet(neighbors) }

\* bestPath after one more agent that ended with <<agentPos, path>>
SwarmKeep(bestPath, agent, goalPos) ==
    IF positionsEqual(agent[1], goalPos) /\ Len(agent[2]) < PathLength(bestPath)
    THEN agent[2] ELSE bestPath

RECURSIVE SwarmLoop(_, _, _, _)
SwarmLoop(bests, agents, left, goalPos) ==
    IF left = 0 THEN bests
    ELSE SwarmLoop({SwarmKeep(b, a, goalPos) : b \in bests, a \in agents},
                   agents, left - 1, goalPos)

\* findPathSwarm(start, goal, buildingMap, swarmSize, iterations): every value
\* it can return
findPathSwarm(startPos, goalPos, map, swarmSize, iterations) ==
    SwarmLoop({Null}, SwarmAgent(startPos, <<startPos>>, 0, iterations, goalPos, map),
              swarmSize, goalPos)

\* ------------------------------------------------------------------- GA
RECURSIVE InsertByLength(_, _)
InsertByLength(sorted, path) ==
    IF sorted = <<>> THEN <<path>>
    ELSE IF Len(Head(sorted)) <= Len(path)
         THEN <<Head(sorted)>> \o InsertByLength(Tail(sorted), path)
         ELSE <<path>> \o sorted

RECURSIVE SortByLength(_)
\* population.sort((a, b) => a.length - b.length): stable
SortByLength(population) ==
    IF population = <<>> THEN <<>>
    ELSE InsertByLength(SortByLength(SubSeq(population, 1, Len(population) - 1)),
                        population[Len(population)])

\* the populations the first loop can build (lines 650-653): populationSize
\* random walks, the null ones left out
GAPopulations(walks, populationSize) ==
    { SelectSeq(s, LAMBDA w : w # Null) : s \in [1..populationSize -> walks] }

\* parent2.slice(-Math.floor(parent2.length / 2)); slice(-0) is the whole array
SliceLastHalf(path) ==
    LET k == Len(path) \div 2
    IN IF k = 0 THEN path ELSE SubSeq(path, Len(path) - k + 1, Len(path))

\* the children one pass of the while loop can push (lines 665-678): any two
\* parents, and the mutation (a random walk of at most 20 steps from the
\* child's last position, appended without its first position) or none
GAChildren(population, goalPos, map) ==
    UNION { LET crossoverPoint == Len(parent1) \div 2
                half == SubSeq(parent1, 1, crossoverPoint)
                child == IF Len(parent2) > 0 THEN half \o SliceLastHalf(parent2) ELSE half
            IN {child} \cup
               (IF Len(child) > 0
                THEN { child \o Tail(walk) :
                         walk \in findPathRandomWalk(child[Len(child)], goalPos, map, 20)
                                  \ {Null} }
                ELSE {})
            : parent1 \in SeqToSet(population), parent2 \in SeqToSet(population) }

\* one generation (lines 657-680) on a non-empty population: the
\* [population, bestPath] it can lead to
GAGeneration(c, populationSize, goalPos, map) ==
    LET sorted == SortByLength(c.population)
        best2 == IF Len(sorted[1]) < PathLength(c.bestPath) THEN sorted[1] ELSE c.bestPath
        children == GAChildren(sorted, goalPos, map)
        count == IF populationSize > 1 THEN populationSize - 1 ELSE 0
    IN { [population |-> <<sorted[1]>> \o [i \in 1..count |-> cs[i]], bestPath |-> best2]
         : cs \in [1..count -> children] }

RECURSIVE GALoop(_, _, _, _, _)
\* the generations loop (lines 656-681) on the set cs of [population,
\* bestPath].  With an empty population, population[0] is undefined: newPop
\* is [undefined], and when populationSize > 1 the while loop reads
\* parent1.length of undefined, which throws a TypeError; when
\* populationSize <= 1 nothing changes.
GALoop(cs, generations, populationSize, goalPos, map) ==
    IF generations = 0 THEN {c.bestPath : c \in cs}
    ELSE
      LET empty == {c \in cs : Len(c.population) = 0}
          thrown == IF empty # {} /\ populationSize > 1 THEN {TypeError} ELSE {}
          kept == IF populationSize > 1 THEN {} ELSE empty
          next == UNION { GAGeneration(c, populationSize, goalPos, map) : c \in cs \ empty }
      IN thrown \cup GALoop(kept \cup next, generations - 1, populationSize, goalPos, map)

\* findPathGA(start, goal, buildingMap, populationSize, generations): every
\* value it can return, TypeError when it throws
findPathGA(startPos, goalPos, map, populationSize, generations) ==
    GALoop({ [population |-> p, bestPath |-> Null] :
               p \in GAPopulations(findPathRandomWalk(startPos, goalPos, map, 100),
                                   populationSize) },
           generations, populationSize, goalPos, map)

\* ====================================================================
\* Calls of the pathfinding functions on bounded maps
\* ====================================================================
MakeMap(w, h, f, kindOf(_)) ==
    [x \in 1..w |-> [y \in 1..h |-> [fl \in 1..f |-> kindOf(<<x - 1, y - 1, fl - 1>>)]]]

AllPositions == Positions(GridW, GridH, GridF)

\* the open room: every cell Walkable but two Stairs columns, at the two ends
\* of the row y = 0
OpenRoomKind(p) ==
    IF p[2] = 0 /\ (p[1] = 0 \/ p[1] = GridW - 1) THEN STAIRS ELSE WALKABLE

\* the open room with at most MaxBlocked cells turned into Wall, Fire or Exit
MarkedMaps ==
    { MakeMap(GridW, GridH, GridF,
              LAMBDA p : IF p \in DOMAIN marks THEN marks[p] ELSE OpenRoomKind(p))
      : marks \in UNION { [cells -> {WALL, FIRE, EXIT}] :
                            cells \in {c \in SUBSET AllPositions :
                                          Cardinality(c) <= MaxBlocked} } }

SameFloorAdjacent(p, q) ==
    /\ p # q /\ p[3] = q[3]
    /\ Abs(p[1] - q[1]) <= 1 /\ Abs(p[2] - q[2]) <= 1

\* the open room with one Walkable cell all of whose same-floor neighbours
\* are on fire
EnclosedMaps ==
    { MakeMap(GridW, GridH, GridF,
              LAMBDA p : IF p = c THEN WALKABLE
                         ELSE IF SameFloorAdjacent(c, p) THEN FIRE
                         ELSE OpenRoomKind(p))
      : c \in AllPositions }

RoomMaps == MarkedMaps \cup EnclosedMaps

\* the corridor: the open room with every row but y = 0 walled up
CorridorKind(p) == IF p[2] = 0 THEN OpenRoomKind(p) ELSE WALL

\* the corridor with at most MaxBlocked cells turned into another kind
CorridorMaps ==
    { MakeMap(GridW, GridH, GridF,
              LAMBDA p : IF p \in DOMAIN marks THEN marks[p] ELSE CorridorKind(p))
      : marks \in UNION { [cells -> {WALKABLE, WALL, FIRE, EXIT}] :
                            cells \in {c \in SUBSET AllPositions :
                                          Cardinality(c) <= MaxBlocked} } }

\* the corridor with one Walkable cell all of whose same-floor neighbours are
\* on fire
EnclosedCorridorMaps ==
    { MakeMap(GridW, GridH, GridF,
              LAMBDA p : IF p = c THEN WALKABLE
                         ELSE IF SameFloorAdjacent(c, p) THEN FIRE
                         ELSE CorridorKind(p))
      : c \in AllPositions }

NarrowMaps == CorridorMaps \cup EnclosedCorridorMaps

\* no tick has been performed since the last other operation
NoTick == [ran |-> FALSE, ignited |-> {}, people |-> <<>>, replanned |-> <<>>]

\* the operation performed last returned; otherwise the Error it threw
NoError == [operation |-> "none", position |-> <<>>, message |-> ""]
Error(operation, position, message) ==
    [operation |-> operation, position |-> position, message |-> message]

\* a BuildingService nobody uses
ServiceIdle ==
    /\ firePositions = {}
    /\ people = <<>>
    /\ timestep = 0
    /\ isSimulationRunning = FALSE
    /\ simulationSubscription = "undefined"
    /\ orphanedTimers = 0
    /\ tickTrace = NoTick
    /\ raised = NoError

\* the arguments of a call: a map of the family maps and two positions in it
Inputs(maps) ==
    /\ buildingMap \in maps
    /\ start \in AllPositions
    /\ goal \in AllPositions
    /\ algorithm = "none"
    /\ args = <<>>
    /\ result = Null
    /\ ServiceIdle

\* no function has been called yet
CanCall(name, a) == algorithm = "none"

\* the call of function name with the extra arguments a returns r
Returns(name, a, r) ==
    /\ algorithm' = name
    /\ args' = a
    /\ result' = r
    /\ UNCHANGED <<buildingMap, start, goal, serviceVars>>

Call(name, a, r) == CanCall(name, a) /\ Returns(name, a, r)

CallGetNeighbors == Call("getNeighbors", <<>>, getNeighbors(start, buildingMap))
CallAStar == Call("findPathAStar", <<>>, findPathAStar(start, goal, buildingMap))
CallDijkstra == Call("findPathDijkstra", <<>>, findPathDijkstra(start, goal, buildingMap))
CallBFS == Call("findPathBFS", <<>>, findPathBFS(start, goal, buildingMap))
CallDFS == Call("findPathDFS", <<>>, findPathDFS(start, goal, buildingMap))
CallGreedyBestFirst ==
    Call("findPathGreedyBestFirst", <<>>, findPathGreedyBestFirst(start, goal, buildingMap))
CallBidirectional ==
    Call("findPathBidirectional", <<>>, findPathBidirectional(start, goal, buildingMap))
CallJPS == Call("findPathJPS", <<>>, findPathJPS(start, goal, buildingMap))
CallThetaStar == Call("findPathThetaStar", <<>>, findPathThetaStar(start, goal, buildingMap))
CallFringe == Call("findPathFringe", <<>>, findPathFringe(start, goal, buildingMap))
CallAStarWeighted ==
    \E weight \in {1000, 1500, 2000} :
        Call("findPathAStarWeighted", <<weight>>,
             findPathAStarWeighted(start, goal, buildingMap, weight))
CallAnytimeAStar ==
    \E timeLimitMs \in {0, 100} :
        /\ CanCall("findPathAnytimeAStar", <<timeLimitMs>>)
        /\ \E r \in findPathAnytimeAStar(start, goal, buildingMap, timeLimitMs) :
              Returns("findPathAnytimeAStar", <<timeLimitMs>>, r)
CallRandomWalk ==
    \E maxSteps \in 1..MaxSteps :
        /\ CanCall("findPathRandomWalk", <<maxSteps>>)
        /\ \E r \in findPathRandomWalk(start, goal, buildingMap, maxSteps) :
              Returns("findPathRandomWalk", <<maxSteps>>, r)
CallACO ==
    \E iterations \in 1..MaxRounds, antCount \in 1..MaxRounds :
        /\ CanCall("findPathACO", <<iterations, antCount>>)
        /\ \E r \in findPathACO(start, goal, buildingMap, iterations, antCount) :
              Returns("findPathACO", <<iterations, antCount>>, r)
CallGA ==
    \E populationSize \in 1..MaxRounds, generations \in 1..MaxRounds :
        /\ CanCall("findPathGA", <<populationSize, generations>>)
        /\ \E r \in findPathGA(start, goal, buildingMap, populationSize, generations) :
              Returns("findPathGA", <<populationSize, generations>>, r)
CallSwarm ==
    \E swarmSize \in 1..MaxRounds, iterations \in 1..MaxSteps :
        /\ CanCall("findPathSwarm", <<swarmSize, iterations>>)
        /\ \E r \in findPathSwarm(start, goal, buildingMap, swarmSize, iterations) :
              Returns("findPathSwarm", <<swarmSize, iterations>>, r)

\* every pathfinding function, on the narrow maps
PathNext ==
    \/ CallAStar \/ CallDijkstra \/ CallBFS \/ CallDFS \/ CallGreedyBestFirst
    \/ CallBidirectional \/ CallJPS \/ CallThetaStar \/ CallFringe
    \/ CallAStarWeighted \/ CallAnytimeAStar
    \/ CallRandomWalk \/ CallACO \/ CallGA \/ CallSwarm

PathSpec == Inputs(NarrowMaps) /\ [][PathNext]_vars

\* getNeighbors alone, on the room maps
NeighborSpec == Inputs(RoomMaps) /\ [][CallGetNeighbors]_vars

\* the two shortest-path functions, on the room maps
ShortestNext == CallAStar \/ CallDijkstra
ShortestSpec == Inputs(RoomMaps) /\ [][ShortestNext]_vars

\* the queue-based searches, on the room maps
QueueNext == CallBFS \/ CallDFS \/ CallBidirectional
QueueSpec == Inputs(RoomMaps) /\ [][QueueNext]_vars

\* the two-floor 5x5 grids whose floors are joined only by the Stairs column
\* at (2,2): every other cell Walkable, but at most one cell, neither the
\* start (0,0,1) nor the goal (4,4,0), turned into Wall or Fire
StairColumnMaps ==
    LET cells == Positions(5, 5, 2)
        fixed == {<<2, 2, 0>>, <<2, 2, 1>>, <<0, 0, 1>>, <<4, 4, 0>>}
        Grid(cell, kind) ==
            MakeMap(5, 5, 2,
                    LAMBDA p : IF p[1] = 2 /\ p[2] = 2 THEN STAIRS
                               ELSE IF p = cell THEN kind
                               ELSE WALKABLE)
    IN {Grid(<<2, 2, 0>>, STAIRS)}
       \cup {Grid(cell, kind) : cell \in cells \ fixed, kind \in {WALL, FIRE}}

\* findPathAStar from the upper floor's corner (0,0,1) to the ground floor's
\* opposite corner (4,4,0) of such a grid
StairColumnInputs ==
    /\ buildingMap \in StairColumnMaps
    /\ start = <<0, 0, 1>>
    /\ goal = <<4, 4, 0>>
    /\ algorithm = "none"
    /\ args = <<>>
    /\ result = Null
    /\ ServiceIdle

StairColumnSpec == StairColumnInputs /\ [][CallAStar]_vars

\* ------------------------------------------------------ path statistics
\* Math.round(n * 100) / 100 of a non-negative n held in millionths
MathRoundHundredths(n) == ((n + 5000) \div 10000) * 10000

RECURSIVE StatsLoopSkippingStairs(_, _, _, _)
\* the loop of calculatePathStats with the floor compared before the cost of
\* a pair is added, and nothing added for a pair that changes floor
StatsLoopSkippingStairs(path, i, totalDistance, floorChanges) ==
    IF i > Len(path) THEN <<totalDistance, floorChanges>>
    ELSE IF path[i - 1][3] # path[i][3]
         THEN StatsLoopSkippingStairs(path, i + 1, totalDistance, floorChanges + 1)
         ELSE StatsLoopSkippingStairs(path, i + 1,
                                  totalDistance + getMovementCost(path[i - 1], path[i]),
                                  floorChanges)

RECURSIVE StatsLoop(_, _, _, _)
\* for (let i = 1; i < path.length; i++): the cost of the pair is added to
\* totalDistance and a pair on two floors counted (i is 1-based here)
StatsLoop(path, i, totalDistance, floorChanges) ==
    IF i > Len(path) THEN <<totalDistance, floorChanges>>
    ELSE StatsLoop(path, i + 1,
                   totalDistance + getMovementCost(path[i - 1], path[i]),
                   IF path[i - 1][3] # path[i][3] THEN floorChanges + 1
                   ELSE floorChanges)

\* calculatePathStats: length and estimatedTime (totalDistance / 1.4) in
\* millionths, each rounded to hundredths
calculatePathStats(path) ==
    IF Len(path) = 0
    THEN [length |-> 0, floorChanges |-> 0, estimatedTime |-> 0]
    ELSE LET sums == StatsLoop(path, 2, 0, 0)
             totalDistance == sums[1]
         IN [length |-> MathRoundHundredths(totalDistance),
             floorChanges |-> sums[2],
             estimatedTime |-> ((totalDistance + 7000) \div 14000) * 10000]

RECURSIVE SeqsUpTo(_, _)
\* the sequences of at most n elements of S
SeqsUpTo(S, n) ==
    IF n = 0 THEN {<<>>}
    ELSE LET shorter == SeqsUpTo(S, n - 1)
         IN shorter \cup {Append(q, e) : q \in shorter, e \in S}

\* the argument of calculatePathStats: any sequence of positions, neighbours
\* or not
StatsInputs ==
    /\ buildingMap = MakeMap(GridW, GridH, GridF, LAMBDA p : WALKABLE)
    /\ start = <<0, 0, 0>>
    /\ goal = <<0, 0, 0>>
    /\ algorithm = "none"
    /\ args \in {<<path>> : path \in SeqsUpTo(AllPositions, MaxPathLen)}
    /\ result = Null
    /\ ServiceIdle

CallCalculatePathStats ==
    Call("calculatePathStats", args, calculatePathStats(args[1]))

StatsSpec == StatsInputs /\ [][CallCalculatePathStats]_vars

\* ====================================================================
\* BuildingService (building.service.ts): the simulated building
\* ====================================================================
\* generateBuildingLayout: the writes of the code in their order, so the kind
\* of a cell is the one written last: exits, else stairs, else doors, else
\* walls (internal, perimeter), else Walkable
generateBuildingLayout(width, height, floors) ==
    LET wall1X == width \div 3
        wall2X == (2 * width) \div 3
        wall1Y == height \div 3
        wall2Y == (2 * height) \div 3
        stairX == width \div 2
        stairY == height \div 2
        perimeter(x, y) == y = 0 \/ y = height - 1 \/ x = 0 \/ x = width - 1
        internal(x, y) ==
            \/ x = wall1X /\ y >= 2 /\ y < height \div 2
            \/ x = wall2X /\ y >= height \div 2 /\ y < height - 2
            \/ y = wall1Y /\ x >= 2 /\ x < width \div 2
            \/ y = wall2Y /\ x >= width \div 2 /\ x < width - 2
        door(x, y) ==
            \/ x = wall1X /\ y = height \div 4
            \/ x = wall2X /\ y = (3 * height) \div 4
            \/ x = width \div 4 /\ y = wall1Y
            \/ x = (3 * width) \div 4 /\ y = wall2Y
        stair(x, y) == x \in {stairX, stairX + 1} /\ y \in {stairY, stairY + 1}
        exit(x, y, floor) == floor = 0 /\ y = height \div 2 /\ x \in {1, width - 2}
        kind(x, y, floor) ==
            IF exit(x, y, floor) THEN EXIT
            ELSE IF stair(x, y) THEN STAIRS
            ELSE IF door(x, y) THEN WALKABLE
            ELSE IF internal(x, y) \/ perimeter(x, y) THEN WALL
            ELSE WALKABLE
    IN [x \in 1..width |-> [y \in 1..height |-> [fl \in 1..floors |->
            kind(x - 1, y - 1, fl - 1)]]]

\* the service's own isValidPosition: inside the bounds, whatever the kind
isValidPositionInBuilding(x, y, floor, map) ==
    /\ x >= 0 /\ x < Width(map)
    /\ y >= 0 /\ y < Height(map)
    /\ floor >= 0 /\ floor < FloorCount(map)

\* map with the cells at the positions of cells set to kind
SetCells(map, cells, kind) ==
    [x \in 1..Width(map) |-> [y \in 1..Height(map) |-> [fl \in 1..FloorCount(map) |->
        IF <<x - 1, y - 1, fl - 1>> \in cells THEN kind ELSE map[x][y][fl]]]]

\* getExitPositions: the Exit cells in the order of the loops over x, y, floor
getExitPositions(map) ==
    LET count == Width(map) * Height(map) * FloorCount(map)
        at == [k \in 1..count |->
                 << (k - 1) \div (Height(map) * FloorCount(map)),
                    ((k - 1) \div FloorCount(map)) % Height(map),
                    (k - 1) % FloorCount(map) >>]
        isExit == [k \in 1..count |-> CellAt(map, at[k]) = EXIT]
    IN SeqFilter(at, isExit, 1)

\* a Person as addPerson creates it.  id stands for the unique string of the
\* code; name and targetPosition, which the service never reads, are left out;
\* trapped is FALSE for the code's undefined and false, which it does not
\* tell apart
NewPerson(id, position) ==
    [id |-> id, position |-> position, path |-> <<>>, currentPathIndex |-> 0,
     isEvacuated |-> FALSE, movementSpeed |-> 1, trapped |-> FALSE]

\* ------------------------------------------------------------ startFire
\* startFire(position) succeeding on Stairs cells as well as Walkable ones
CanStartFireOnStairs(position, map) ==
    /\ isValidPositionInBuilding(position[1], position[2], position[3], map)
    /\ CellAt(map, position) \in {WALKABLE, STAIRS}

\* startFire(position) succeeds on a Walkable cell inside the bounds
CanStartFire(position, map) ==
    /\ isValidPositionInBuilding(position[1], position[2], position[3], map)
    /\ CellAt(map, position) = WALKABLE

\* ----------------------------------------------------------- spreadFire
\* the cells a tick could ignite if Stairs and Exit cells burned like Walkable
\* ones
SpreadCandidatesOfAnyOpenKind(map, fire) ==
    { p \in { <<keyToPosition(f)[1] + d[1], keyToPosition(f)[2] + d[2], keyToPosition(f)[3]>> :
                f \in fire, d \in ({-1, 0, 1} \X {-1, 0, 1}) \ {<<0, 0>>} } :
        /\ isValidPositionInBuilding(p[1], p[2], p[3], map)
        /\ CellAt(map, p) \in {WALKABLE, STAIRS, EXIT} }

\* the cells a tick can ignite: the Walkable same-floor neighbours of the
\* cells of firePositions, as they are when the tick starts
SpreadCandidates(map, fire) ==
    { p \in { <<keyToPosition(f)[1] + d[1], keyToPosition(f)[2] + d[2], keyToPosition(f)[3]>> :
                f \in fire, d \in ({-1, 0, 1} \X {-1, 0, 1}) \ {<<0, 0>>} } :
        /\ isValidPositionInBuilding(p[1], p[2], p[3], map)
        /\ CellAt(map, p) = WALKABLE }

\* spreadFire setting the cells on fire without adding their keys to
\* firePositions
spreadFireUnrecorded(map, fire, ignited) ==
    [buildingMap |-> SetCells(map, ignited, FIRE),
     firePositions |-> fire]

\* spreadFire where the fire leaves the cells it spreads from
spreadFireMoving(map, fire, ignited) ==
    [buildingMap |-> SetCells(SetCells(map, fire, WALKABLE), ignited, FIRE),
     firePositions |-> IF ignited = {} THEN fire ELSE ignited]

\* spreadFire: ignited is the set of candidates for which Math.random() fell
\* below fireSpreadRate; they are set on fire after the scan
spreadFire(map, fire, ignited) ==
    [buildingMap |-> SetCells(map, ignited, FIRE),
     firePositions |-> fire \cup {positionToKey(p) : p \in ignited}]

\* ------------------------------------------------ isPathBlockedByFire
\* isPathBlockedByFire looking only at the positions after the first
isPathBlockedByFireAhead(path, map) ==
    \E i \in 2..Len(path) : CellAt(map, path[i]) = FIRE

\* isPathBlockedByFire (pathfinding.service.ts): some position is on Fire
isPathBlockedByFire(path, map) ==
    \E i \in 1..Len(path) : CellAt(map, path[i]) = FIRE

\* ----------------------------------------------- recalculateBlockedPaths
RECURSIVE BestCandidateLastOnTies(_, _, _, _, _)
\* the loop over the exits replacing bestPath also by a candidate of the same
\* length
BestCandidateLastOnTies(exits, i, position, map, bestPath) ==
    IF i > Len(exits) THEN bestPath
    ELSE
      LET candidate == findPathAStar(position, exits[i], map)
          shortest == IF bestPath = Null THEN Infinity ELSE Len(bestPath)
      IN IF /\ candidate # Null
            /\ ~isPathBlockedByFire(candidate, map)
            /\ Len(candidate) <= shortest
         THEN BestCandidateLastOnTies(exits, i + 1, position, map, candidate)
         ELSE BestCandidateLastOnTies(exits, i + 1, position, map, bestPath)

RECURSIVE BestCandidate(_, _, _, _, _)
\* the loop over the exits (lines 558-566): the first fire-free A* path of the
\* least length, Null when no exit gives one
BestCandidate(exits, i, position, map, bestPath) ==
    IF i > Len(exits) THEN bestPath
    ELSE
      LET candidate == findPathAStar(position, exits[i], map)
          shortest == IF bestPath = Null THEN Infinity ELSE Len(bestPath)
      IN IF /\ candidate # Null
            /\ ~isPathBlockedByFire(candidate, map)
            /\ Len(candidate) < shortest
         THEN BestCandidate(exits, i + 1, position, map, candidate)
         ELSE BestCandidate(exits, i + 1, position, map, bestPath)

\* the body of the loop over the people replanning only a person without a
\* path, whatever burns on the path of the others
ReplanPersonWithoutPathOnly(person, exits, map) ==
    IF person.isEvacuated THEN person
    ELSE
      IF Len(person.path) # 0 THEN person
      ELSE LET bestPath == BestCandidate(exits, 1, person.position, map, Null)
           IN IF bestPath # Null
              THEN [person EXCEPT !.path = bestPath, !.currentPathIndex = 0,
                                  !.trapped = FALSE]
              ELSE [person EXCEPT !.trapped = TRUE]

\* the body of the loop over the people (lines 539-576)
ReplanPerson(person, exits, map) ==
    IF person.isEvacuated THEN person
    ELSE
      LET hasNoPath == Len(person.path) = 0
          pathBlocked ==
              \E i \in (person.currentPathIndex + 1)..Len(person.path) :
                  CellAt(map, person.path[i]) = FIRE
      IN IF ~hasNoPath /\ ~pathBlocked THEN person
         ELSE LET bestPath == BestCandidate(exits, 1, person.position, map, Null)
              IN IF bestPath # Null
                 THEN [person EXCEPT !.path = bestPath, !.currentPathIndex = 0,
                                     !.trapped = FALSE]
                 ELSE [person EXCEPT !.trapped = TRUE]

recalculateBlockedPaths(persons, map) ==
    LET exits == getExitPositions(map)
    IN [i \in 1..Len(persons) |-> ReplanPerson(persons[i], exits, map)]

Min(a, b) == IF a < b THEN a ELSE b

\* ----------------------------------------------------------- movePeople
RECURSIVE Reroute(_, _, _, _)
\* the loop over the exits in movePeople (lines 325-333): the first A* path
\* of more than one position without a Fire cell, Null when there is none
Reroute(exits, i, position, map) ==
    IF i > Len(exits) THEN Null
    ELSE
      LET newPath == findPathAStar(position, exits[i], map)
      IN IF /\ newPath # Null
            /\ Len(newPath) > 1
            /\ ~\E k \in 1..Len(newPath) : CellAt(map, newPath[k]) = FIRE
         THEN newPath
         ELSE Reroute(exits, i + 1, position, map)

\* the body of the loop over the people without the test for the Exit of
\* lines 345-348
MovePersonPastExit(person, map) ==
    IF person.isEvacuated \/ Len(person.path) = 0 \/ person.trapped THEN person
    ELSE IF person.currentPathIndex < Len(person.path) - 1
    THEN
      LET nextIndex == person.currentPathIndex + person.movementSpeed
          targetIndex == Min(nextIndex, Len(person.path) - 1)
          nextPosition == person.path[targetIndex + 1]
      IN IF CellAt(map, nextPosition) = FIRE
         THEN LET newPath == Reroute(getExitPositions(map), 1, person.position, map)
              IN IF newPath # Null
                 THEN [person EXCEPT !.path = newPath, !.currentPathIndex = 0]
                 ELSE [person EXCEPT !.trapped = TRUE]
         ELSE [person EXCEPT !.currentPathIndex = targetIndex,
                             !.position = nextPosition]
    ELSE person

\* the body of the loop over the people (lines 308-350)
MovePerson(person, map) ==
    IF person.isEvacuated \/ Len(person.path) = 0 \/ person.trapped THEN person
    ELSE IF person.currentPathIndex < Len(person.path) - 1
    THEN
      LET nextIndex == person.currentPathIndex + person.movementSpeed
          targetIndex == Min(nextIndex, Len(person.path) - 1)
          nextPosition == person.path[targetIndex + 1]
      IN IF CellAt(map, nextPosition) = FIRE
         THEN LET newPath == Reroute(getExitPositions(map), 1, person.position, map)
              IN IF newPath # Null
                 THEN [person EXCEPT !.path = newPath, !.currentPathIndex = 0]
                 ELSE [person EXCEPT !.trapped = TRUE]
         ELSE [person EXCEPT !.currentPathIndex = targetIndex,
                             !.position = nextPosition,
                             !.isEvacuated = IF CellAt(map, nextPosition) = EXIT
                                             THEN TRUE ELSE @]
    ELSE person

movePeople(persons, map) ==
    [i \in 1..Len(persons) |-> MovePerson(persons[i], map)]

\* --------------------------------------- calculateEvacuationPaths (UI)
RECURSIVE ShortestToExit(_, _, _, _, _)
\* the loop over the exits of the component's calculateEvacuationPaths: the
\* first A* path of the least length
ShortestToExit(exits, i, position, map, bestPath) ==
    IF i > Len(exits) THEN bestPath
    ELSE
      LET path == findPathAStar(position, exits[i], map)
          shortestDistance == IF bestPath = Null THEN Infinity ELSE Len(bestPath)
      IN IF path # Null /\ Len(path) < shortestDistance
         THEN ShortestToExit(exits, i + 1, position, map, path)
         ELSE ShortestToExit(exits, i + 1, position, map, bestPath)

\* setPersonPath(person.id, path) seen from the person
setPersonPath(person, path) ==
    [person EXCEPT !.path = path, !.currentPathIndex = 0]

calculateEvacuationPaths(persons, map) ==
    LET exits == getExitPositions(map)
    IN IF Len(exits) = 0 THEN persons
       ELSE [i \in 1..Len(persons) |->
               IF persons[i].isEvacuated THEN persons[i]
               ELSE LET bestPath == ShortestToExit(exits, 1, persons[i].position, map, Null)
                    IN IF bestPath # Null THEN setPersonPath(persons[i], bestPath)
                       ELSE persons[i]]

\* ------------------------------------------------------------- actions
\* the positions callers hand over: the cells inside the outer wall, one cell
\* of the outer wall and two positions outside the building
BuildingPositions == Positions(BuildW, BuildH, BuildF)
CallerPositions ==
    { p \in BuildingPositions : /\ p[1] >= 1 /\ p[1] <= BuildW - 2
                                /\ p[2] >= 1 /\ p[2] <= BuildH - 2 }
    \cup {<<0, 0, 0>>, <<-1, 0, 0>>, <<0, BuildH, 0>>}

\* stopSimulation's effect on the timer
Unsubscribed == IF simulationSubscription = "undefined" THEN "undefined" ELSE "closed"

\* initializeBuilding(width, height, floors): the timer is left as it is
InitializeBuilding ==
    /\ buildingMap' = generateBuildingLayout(BuildW, BuildH, BuildF)
    /\ firePositions' = {}
    /\ people' = <<>>
    /\ timestep' = 0
    /\ isSimulationRunning' = FALSE
    /\ tickTrace' = NoTick
    /\ raised' = NoError
    /\ UNCHANGED pathVars
    /\ UNCHANGED <<simulationSubscription, orphanedTimers>>

\* startFire(position): sets a Walkable cell inside the bounds on fire and
\* returns true; returns false, and throws nothing, on any other position
StartFireAt(position) ==
    /\ tickTrace' = NoTick
    /\ raised' = NoError
    /\ UNCHANGED <<people, timestep, isSimulationRunning,
                   simulationSubscription, orphanedTimers>>
    /\ UNCHANGED pathVars
    /\ IF CanStartFire(position, buildingMap)
       THEN /\ buildingMap' = SetCells(buildingMap, {position}, FIRE)
            /\ firePositions' = firePositions \cup {positionToKey(position)}
       ELSE UNCHANGED <<buildingMap, firePositions>>  \* returns false

StartFire ==
    \E position \in CallerPositions :
        /\ Cardinality(firePositions) < MaxFire
        /\ StartFireAt(position)

\* addPerson with the test of line 259 accepting every kind of cell
AddPersonAtAnyKind(position) ==
    /\ IF ~isValidPositionInBuilding(position[1], position[2], position[3], buildingMap)
       THEN /\ raised' = Error("addPerson", position, "Invalid position")
            /\ UNCHANGED people
       ELSE /\ raised' = NoError
            /\ people' = Append(people, NewPerson(Len(people) + 1, position))
    /\ UNCHANGED pathVars
    /\ tickTrace' = NoTick
    /\ UNCHANGED <<buildingMap, firePositions, timestep, isSimulationRunning,
                   simulationSubscription, orphanedTimers>>

\* addPerson(position): throws outside the bounds (line 253) and on a cell that
\* is not Walkable, Stairs or Exit (line 261); otherwise the person is pushed
AddPersonAt(position) ==
    /\ IF ~isValidPositionInBuilding(position[1], position[2], position[3], buildingMap)
       THEN /\ raised' = Error("addPerson", position, "Invalid position")
            /\ UNCHANGED people
       ELSE IF CellAt(buildingMap, position) \notin {WALKABLE, STAIRS, EXIT}
       THEN /\ raised' = Error("addPerson", position, "Position is not walkable")
            /\ UNCHANGED people
       ELSE /\ raised' = NoError
            /\ people' = Append(people,
                                NewPerson(CHOOSE id \in 1..(Len(people) + 1) :
                                             \A i \in 1..Len(people) : people[i].id # id,
                                          position))
    /\ UNCHANGED pathVars
    /\ tickTrace' = NoTick
    /\ UNCHANGED <<buildingMap, firePositions, timestep, isSimulationRunning,
                   simulationSubscription, orphanedTimers>>

AddPerson ==
    \E position \in CallerPositions :
        /\ Len(people) < MaxPeople
        /\ orphanedTimers = 0
        /\ AddPersonAt(position)

RemovePerson ==
    \E personId \in 1..MaxPeople :
        /\ people' = SeqFilter(people, [i \in 1..Len(people) |-> people[i].id # personId], 1)
        /\ tickTrace' = NoTick
        /\ raised' = NoError
        /\ UNCHANGED pathVars
        /\ UNCHANGED <<buildingMap, firePositions, timestep, isSimulationRunning,
                       simulationSubscription, orphanedTimers>>

\* the component's "calculate paths" command, which calls setPersonPath
CalculateEvacuationPaths ==
    /\ people' = calculateEvacuationPaths(people, buildingMap)
    /\ tickTrace' = NoTick
    /\ raised' = NoError
    /\ UNCHANGED pathVars
    /\ UNCHANGED <<buildingMap, firePositions, timestep, isSimulationRunning,
                   simulationSubscription, orphanedTimers>>

\* startSimulation: a new interval subscription replaces the reference to the
\* one before, which keeps ticking when it was still open
StartSimulation ==
    /\ IF isSimulationRunning
       THEN UNCHANGED <<isSimulationRunning, simulationSubscription, orphanedTimers>>
       ELSE /\ simulationSubscription = "open" =>
                  (orphanedTimers < MaxOrphans /\ people = <<>>)
            /\ isSimulationRunning' = TRUE
            /\ simulationSubscription' = "open"
            /\ orphanedTimers' = IF simulationSubscription = "open"
                                 THEN orphanedTimers + 1 ELSE orphanedTimers
    /\ tickTrace' = NoTick
    /\ raised' = NoError
    /\ UNCHANGED pathVars
    /\ UNCHANGED <<buildingMap, firePositions, people, timestep>>

StopSimulation ==
    /\ isSimulationRunning' = FALSE
    /\ simulationSubscription' = Unsubscribed
    /\ tickTrace' = NoTick
    /\ raised' = NoError
    /\ UNCHANGED pathVars
    /\ UNCHANGED <<buildingMap, firePositions, people, timestep, orphanedTimers>>

\* setSimulationSpeed(speed): while the simulation runs, stopSimulation (the
\* subscription referred to is closed) and then startSimulation (a new one is
\* opened); the speed itself, the period of the timer, is not part of the state
SetSimulationSpeed ==
    /\ IF isSimulationRunning
       THEN /\ isSimulationRunning' = TRUE
            /\ simulationSubscription' = "open"
            /\ orphanedTimers' = orphanedTimers
       ELSE UNCHANGED <<isSimulationRunning, simulationSubscription, orphanedTimers>>
    /\ tickTrace' = NoTick
    /\ raised' = NoError
    /\ UNCHANGED pathVars
    /\ UNCHANGED <<buildingMap, firePositions, people, timestep>>

\* resetSimulation: stop, put the fire out, clear the people's paths
ResetSimulation ==
    /\ isSimulationRunning' = FALSE
    /\ simulationSubscription' = Unsubscribed
    /\ buildingMap' = SetCells(buildingMap, {keyToPosition(k) : k \in firePositions}, WALKABLE)
    /\ firePositions' = {}
    /\ people' = [i \in 1..Len(people) |->
                    [people[i] EXCEPT !.isEvacuated = FALSE, !.path = <<>>,
                                      !.currentPathIndex = 0]]
    /\ timestep' = 0
    /\ tickTrace' = NoTick
    /\ raised' = NoError
    /\ UNCHANGED pathVars
    /\ UNCHANGED orphanedTimers

\* step() with movePeople called before recalculateBlockedPaths
TickMovingFirst ==
    /\ simulationSubscription = "open" \/ orphanedTimers > 0
    /\ timestep < MaxTicks
    /\ timestep' = timestep + 1
    /\ UNCHANGED <<isSimulationRunning, simulationSubscription, orphanedTimers>>
    /\ UNCHANGED pathVars
    /\ \E ignited \in SUBSET SpreadCandidates(buildingMap, firePositions) :
          /\ Cardinality(firePositions) + Cardinality(ignited) <= MaxFire
          /\ LET spread == spreadFire(buildingMap, firePositions, ignited)
                 moved == movePeople(people, spread.buildingMap)
                 replanned == recalculateBlockedPaths(moved, spread.buildingMap)
             IN /\ buildingMap' = spread.buildingMap
                /\ firePositions' = spread.firePositions
                /\ people' = replanned
                /\ tickTrace' = [ran |-> TRUE, ignited |-> ignited,
                                 people |-> people, replanned |-> replanned]
                /\ raised' = NoError

\* step(), called by an open interval subscription: spreadFire,
\* recalculateBlockedPaths, movePeople, timestep++
Tick ==
    /\ simulationSubscription = "open" \/ orphanedTimers > 0
    /\ timestep < MaxTicks
    /\ timestep' = timestep + 1
    /\ UNCHANGED <<isSimulationRunning, simulationSubscription, orphanedTimers>>
    /\ UNCHANGED pathVars
    /\ \E ignited \in SUBSET SpreadCandidates(buildingMap, firePositions) :
          /\ Cardinality(firePositions) + Cardinality(ignited) <= MaxFire
          /\ LET spread == spreadFire(buildingMap, firePositions, ignited)
                 replanned == recalculateBlockedPaths(people, spread.buildingMap)
             IN /\ buildingMap' = spread.buildingMap
                /\ firePositions' = spread.firePositions
                /\ people' = movePeople(replanned, spread.buildingMap)
                /\ tickTrace' = [ran |-> TRUE, ignited |-> ignited,
                                 people |-> people, replanned |-> replanned]
                /\ raised' = NoError

\* the service as its constructor leaves it: initializeBuilding
Init ==
    /\ buildingMap = generateBuildingLayout(BuildW, BuildH, BuildF)
    /\ firePositions = {}
    /\ people = <<>>
    /\ timestep = 0
    /\ isSimulationRunning = FALSE
    /\ simulationSubscription = "undefined"
    /\ orphanedTimers = 0
    /\ tickTrace = NoTick
    /\ raised = NoError
    /\ start = <<0, 0, 0>>
    /\ goal = <<0, 0, 0>>
    /\ algorithm = "none"
    /\ args = <<>>
    /\ result = Null

Next ==
    \/ InitializeBuilding
    \/ StartFire
    \/ AddPerson
    \/ RemovePerson
    \/ CalculateEvacuationPaths
    \/ StartSimulation
    \/ StopSimulation
    \/ ResetSimulation
    \/ SetSimulationSpeed
    \/ Tick

Spec == Init /\ [][Next]_vars

\* the service with every person added at one cell, the Entrance: the position
\* a person was added at is then known without a record of it
Entrance == <<2, 1, 0>>

AddPersonAtEntrance ==
    /\ Len(people) < MaxPeople
    /\ orphanedTimers = 0
    /\ AddPersonAt(Entrance)

ResetNext ==
    \/ AddPersonAtEntrance
    \/ StartFire
    \/ CalculateEvacuationPaths
    \/ StartSimulation
    \/ StopSimulation
    \/ ResetSimulation
    \/ Tick

ResetSpec == Init /\ [][ResetNext]_vars

\* the service in a building where nothing burns, with the people added
\* before the first tick: timestep is then the number of ticks each person
\* has been through
AddPersonBeforeFirstTick ==
    /\ timestep = 0
    /\ AddPerson

EvacuationNext ==
    \/ AddPersonBeforeFirstTick
    \/ CalculateEvacuationPaths
    \/ StartSimulation
    \/ StopSimulation
    \/ Tick

EvacuationSpec == Init /\ [][EvacuationNext]_vars

\* ====================================================================
\* Reference notions the claims are stated with
\* ====================================================================
PathfindingFunctions ==
    {"findPathAStar", "findPathDijkstra", "findPathBFS", "findPathDFS",
     "findPathGreedyBestFirst", "findPathBidirectional", "findPathJPS",
     "findPathThetaStar", "findPathFringe", "findPathAStarWeighted",
     "findPathAnytimeAStar", "findPathRandomWalk", "findPathACO", "findPathGA",
     "findPathSwarm"}

\* q can be entered from p in one move
IsMove(p, q, map) == q \in SeqToSet(getNeighbors(p, map))

RECURSIVE ReachableWithin(_, _, _)
\* the positions reachable from those of from by at most n moves
ReachableWithin(from, map, n) ==
    IF n = 0 THEN from
    ELSE LET more == from \cup UNION { SeqToSet(getNeighbors(p, map)) : p \in from }
         IN IF more = from THEN from ELSE ReachableWithin(more, map, n - 1)

Reachable(p, q, map) ==
    q \in ReachableWithin({p}, map, Cardinality(MapPositions(map)))

RECURSIVE StepsFrom(_, _, _, _, _)
\* the least number of moves from a position of seen to q, counted from n,
\* frontier being the positions first seen at n; -1 when there is none
StepsFrom(frontier, seen, q, map, n) ==
    IF q \in frontier THEN n
    ELSE LET nextFrontier == UNION { SeqToSet(getNeighbors(p, map)) : p \in frontier } \ seen
         IN IF nextFrontier = {} THEN -1
            ELSE StepsFrom(nextFrontier, seen \cup nextFrontier, q, map, n + 1)

MinSteps(p, q, map) == StepsFrom({p}, {p}, q, map, 0)

RECURSIVE SetMin(_)
SetMin(S) == LET x == CHOOSE x \in S : TRUE
             IN IF S = {x} THEN x ELSE Min(x, SetMin(S \ {x}))

\* one round of relaxation: the least of dist[r] and the costs of reaching r
\* by one move from a position p with a finite dist[p]
Relaxed(dist, map) ==
    [r \in DOMAIN dist |->
       SetMin({dist[r]} \cup
              { dist[p] + getMovementCost(p, r) :
                  p \in {p \in DOMAIN dist : dist[p] < Infinity /\ IsMove(p, r, map)} })]

RECURSIVE LeastCosts(_, _)
\* the fixpoint of Relaxed (Bellman-Ford): dist[r] is the least total cost of a
\* legal path to r
LeastCosts(dist, map) ==
    LET next == Relaxed(dist, map)
    IN IF next = dist THEN dist ELSE LeastCosts(next, map)

\* the least total movement cost of a legal path from p to q, Infinity when
\* there is none
MinCost(p, q, map) ==
    LeastCosts([r \in MapPositions(map) \cup {p} |-> IF r = p THEN 0 ELSE Infinity],
               map)[q]

RECURSIVE PathCost(_)
\* the sum of getMovementCost over the consecutive pairs of a path
PathCost(path) ==
    IF Len(path) <= 1 THEN 0
    ELSE getMovementCost(path[1], path[2]) + PathCost(Tail(path))

IsPath(r) == r # Null /\ r # TypeError

\* path leads from p to q by legal moves
IsLegalPath(path, p, q, map) ==
    /\ Len(path) >= 1
    /\ path[1] = p
    /\ path[Len(path)] = q
    /\ \A i \in 1..(Len(path) - 1) : IsMove(path[i], path[i + 1], map)

\* ====================================================================
\* Claims
\* ====================================================================

\* C1: findPathDijkstra returns a path whenever goal is reachable from start by
\* neighbour moves, and that path has the least total movement cost of all
\* legal paths from start to goal.
DijkstraReturnsCheapestPath ==
    (algorithm = "findPathDijkstra" /\ Reachable(start, goal, buildingMap)) =>
        /\ IsPath(result)
        /\ IsLegalPath(result, start, goal, buildingMap)
        /\ PathCost(result) = MinCost(start, goal, buildingMap)

\* findPathDijkstra has returned null although goal is one move from start
DijkstraMissesAdjacentGoal ==
    /\ algorithm = "findPathDijkstra"
    /\ IsMove(start, goal, buildingMap)
    /\ result = Null

\* C2: whatever the function and the map, a call with start equal to goal
\* returns exactly the one-element path <<start>>.
StartEqualsGoalReturnsStart ==
    (algorithm \in PathfindingFunctions /\ start = goal) => result = <<start>>

\* findPathBidirectional, called with start equal to goal, has returned a
\* path of two positions
BidirectionalLeavesStart ==
    /\ algorithm = "findPathBidirectional"
    /\ start = goal
    /\ IsPath(result)
    /\ Len(result) = 2

\* C3: whatever the function and the map, a call whose goal is not reachable
\* from start returns null: it returns no path and raises no error.
UnreachableGoalReturnsNull ==
    (algorithm \in PathfindingFunctions /\ ~Reachable(start, goal, buildingMap)) =>
        result = Null

\* findPathGA has thrown on a start all of whose neighbours are on fire
GAThrowsWhenEnclosed ==
    /\ algorithm = "findPathGA"
    /\ start # goal
    /\ CellAt(buildingMap, start) = WALKABLE
    /\ \A p \in AllPositions : SameFloorAdjacent(start, p) => CellAt(buildingMap, p) = FIRE
    /\ result = TypeError

\* C4: a path returned by findPathBidirectional begins at start, ends at goal,
\* and each of its positions is a neighbour of the one before it.
BidirectionalPathIsLegal ==
    (algorithm = "findPathBidirectional" /\ IsPath(result)) =>
        IsLegalPath(result, start, goal, buildingMap)

\* findPathBidirectional has returned a path that stops short of a goal that is
\* reachable from start
BidirectionalStopsShortOfGoal ==
    /\ algorithm = "findPathBidirectional"
    /\ start # goal
    /\ Reachable(start, goal, buildingMap)
    /\ IsPath(result)
    /\ result[Len(result)] # goal

\* the positions the neighbour rule names for p: the same-floor cells next to
\* p that are Walkable, Stairs or Exit and, when p is Stairs, the Stairs cells
\* right below and right above p
ExpectedNeighbors(p, map) ==
    { q \in MapPositions(map) :
        \/ /\ SameFloorAdjacent(p, q)
           /\ CellAt(map, q) \in {WALKABLE, STAIRS, EXIT}
        \/ /\ CellAt(map, p) = STAIRS
           /\ q[1] = p[1] /\ q[2] = p[2] /\ Abs(q[3] - p[3]) = 1
           /\ CellAt(map, q) = STAIRS }

\* C5: for a position p of the grid, getNeighbors(p) holds exactly the in-bounds
\* same-floor cells next to p of kind Walkable, Stairs or Exit and, only when p
\* is Stairs, the Stairs cells at p's (x, y) one floor down and one floor up; no
\* position of it is out of bounds, a Wall or on Fire.
GetNeighborsIsExact ==
    algorithm = "getNeighbors" =>
        /\ SeqToSet(result) = ExpectedNeighbors(start, buildingMap)
        /\ \A i \in 1..Len(result) :
              /\ result[i] \in MapPositions(buildingMap)
              /\ CellAt(buildingMap, result[i]) \notin {WALL, FIRE}

\* getNeighbors has been called on a Stairs cell beside a burning cell and has
\* returned a cell of another floor
StairsNeighborsBesideFire ==
    /\ algorithm = "getNeighbors"
    /\ CellAt(buildingMap, start) = STAIRS
    /\ \E i \in 1..Len(result) : result[i][3] # start[3]
    /\ \E q \in AllPositions :
          SameFloorAdjacent(start, q) /\ CellAt(buildingMap, q) = FIRE

\* C6: on a grid where findPathAStar and findPathDijkstra both return a path
\* for the same start and goal, the two paths have the same total movement
\* cost.
AStarAndDijkstraCostsAgree ==
    LET pathA == findPathAStar(start, goal, buildingMap)
        pathD == findPathDijkstra(start, goal, buildingMap)
    IN (IsPath(pathA) /\ IsPath(pathD)) => PathCost(pathA) = PathCost(pathD)

\* the case of C6: both functions return a path
AStarAndDijkstraBothReturnPaths ==
    /\ IsPath(findPathAStar(start, goal, buildingMap))
    /\ IsPath(findPathDijkstra(start, goal, buildingMap))

\* C7: a path returned by findPathAStar has the least total movement cost
\* (1 a straight move, 1.414 a diagonal one, 5 more a floor change) of all
\* legal paths from start to goal, on one floor and across floors.
AStarReturnsCheapestPath ==
    (algorithm = "findPathAStar" /\ IsPath(result)) =>
        PathCost(result) = MinCost(start, goal, buildingMap)

\* findPathAStar has returned a legal path across floors that costs more than
\* the cheapest one
AStarReturnsCostlierPath ==
    /\ algorithm = "findPathAStar"
    /\ IsPath(result)
    /\ IsLegalPath(result, start, goal, buildingMap)
    /\ start[3] # goal[3]
    /\ PathCost(result) > MinCost(start, goal, buildingMap)

\* C8: whenever goal is reachable from start, findPathBFS returns a legal path
\* from start to goal with the least number of moves.
BFSReturnsFewestSteps ==
    (algorithm = "findPathBFS" /\ Reachable(start, goal, buildingMap)) =>
        /\ IsPath(result)
        /\ IsLegalPath(result, start, goal, buildingMap)
        /\ Len(result) - 1 = MinSteps(start, goal, buildingMap)

\* findPathBFS has returned a path of three moves or more around a blocked cell
BFSFindsWayAround ==
    /\ algorithm = "findPathBFS"
    /\ IsPath(result)
    /\ Len(result) >= 4
    /\ result[Len(result)] = goal
    /\ \E p \in AllPositions : CellAt(buildingMap, p) \in {WALL, FIRE}

\* a person's path is stale on map: it is empty, or a position of it at or
\* after the person's progress index is on Fire
IsStale(person, map) ==
    \/ Len(person.path) = 0
    \/ \E i \in (person.currentPathIndex + 1)..Len(person.path) :
          CellAt(map, person.path[i]) = FIRE

\* path ends at an Exit cell of map and no position of it is on Fire
IsFireFreeExitPath(path, map) ==
    /\ Len(path) >= 1
    /\ CellAt(map, path[Len(path)]) = EXIT
    /\ \A i \in 1..Len(path) : CellAt(map, path[i]) # FIRE

\* C9: after the replanning step of a tick, every non-evacuated person whose
\* path was stale before the step either holds a path to an Exit without any
\* Fire cell, assigned with progress index 0, or is trapped; nobody whose
\* replanning succeeded holds a path with a Fire cell.  (The map the step
\* works on is the map the tick leaves: movement does not change it.)
ReplanningLeavesSafePathOrTrapped ==
    tickTrace.ran =>
        \A i \in 1..Len(tickTrace.people) :
            LET before == tickTrace.people[i]
                after == tickTrace.replanned[i]
            IN (~before.isEvacuated /\ IsStale(before, buildingMap)) =>
                  \/ after.trapped
                  \/ /\ IsFireFreeExitPath(after.path, buildingMap)
                     /\ after.currentPathIndex = 0

\* a tick has replanned a person whose path led through a cell that is now on
\* Fire: the person holds another path and is not trapped
ReplannedAroundFire ==
    /\ tickTrace.ran
    /\ \E i \in 1..Len(tickTrace.people) :
          LET before == tickTrace.people[i]
              after == tickTrace.replanned[i]
          IN /\ ~before.isEvacuated
             /\ Len(before.path) > 0
             /\ IsStale(before, buildingMap)
             /\ ~after.trapped
             /\ after.path # before.path
             /\ Len(after.path) >= 3

\* C10: a tick and a startFire call only add to the fire: every key of
\* firePositions and every Fire cell of the grid before the operation is still
\* there after it.
FireOnlyGrows ==
    [][(Tick \/ StartFire) =>
          /\ firePositions \subseteq firePositions'
          /\ \A p \in BuildingPositions :
                CellAt(buildingMap, p) = FIRE => CellAt(buildingMap', p) = FIRE]_vars

\* a tick has spread a fire that startFire lit to further cells
FireHasSpread ==
    /\ tickTrace.ran
    /\ tickTrace.ignited # {}
    /\ firePositions # {positionToKey(p) : p \in tickTrace.ignited}
    /\ \A k \in firePositions : CellAt(buildingMap, keyToPosition(k)) = FIRE

\* the interval subscriptions that are open: the one the service refers to and
\* those it has lost the reference to
ActiveTimers ==
    orphanedTimers + (IF simulationSubscription = "open" THEN 1 ELSE 0)

\* C11: at most one tick timer subscription is ever active, and none is active
\* while the running flag is false, so that no tick is performed after
\* stopSimulation has returned until startSimulation is called again.
AtMostOneTimerAndNoneWhileStopped ==
    /\ ActiveTimers <= 1
    /\ ~isSimulationRunning => ActiveTimers = 0

\* a tick has been performed although stopSimulation closed the subscription
\* the service refers to and startSimulation has not been called since
TickAfterStop ==
    /\ tickTrace.ran
    /\ ~isSimulationRunning
    /\ simulationSubscription = "closed"
    /\ orphanedTimers > 0

\* position is inside the bounds of the building
InBounds(position) ==
    isValidPositionInBuilding(position[1], position[2], position[3], buildingMap)

\* C12: addPerson(position) on a Wall or Fire cell throws an Error and leaves
\* the list of people, the grid and the fire set as they were.
AddPersonOnWallOrFireIsRejected ==
    [][\A position \in CallerPositions :
          (/\ InBounds(position)
           /\ CellAt(buildingMap, position) \in {WALL, FIRE}
           /\ AddPersonAt(position))
          => /\ raised'.operation = "addPerson"
             /\ raised'.position = position
             /\ UNCHANGED <<people, buildingMap, firePositions>>]_vars

\* addPerson has thrown on a burning cell
AddPersonOnFireRejected ==
    /\ raised.operation = "addPerson"
    /\ InBounds(raised.position)
    /\ CellAt(buildingMap, raised.position) = FIRE
    /\ raised.position \in {keyToPosition(k) : k \in firePositions}

\* C13: addPerson and startFire, given a position outside the bounds of the
\* grid, throw an Error and leave the grid, the fire set and the people as they
\* were.
OutOfBoundsPositionRaises ==
    [][\A position \in CallerPositions :
          ~InBounds(position) =>
             /\ AddPersonAt(position) =>
                   /\ raised'.operation = "addPerson"
                   /\ UNCHANGED <<people, buildingMap, firePositions>>
             /\ StartFireAt(position) =>
                   /\ raised'.operation = "startFire"
                   /\ UNCHANGED <<people, buildingMap, firePositions>>]_vars

\* addPerson has thrown on a position outside the bounds while a fire burns
AddPersonOutsideRaised ==
    /\ raised.operation = "addPerson"
    /\ ~InBounds(raised.position)
    /\ raised.message = "Invalid position"
    /\ firePositions # {}

\* C14: a person whose movement in a tick lands on an Exit cell is evacuated
\* when the tick ends, and a person evacuated before a tick is skipped by its
\* replanning and keeps position, path and progress index through the tick.
EvacuatedOnExitAndLeftAlone ==
    tickTrace.ran =>
        \A i \in 1..Len(people) :
            LET before == tickTrace.people[i]
                replanned == tickTrace.replanned[i]
                after == people[i]
            IN /\ before.isEvacuated =>
                     (replanned = before /\ after = before)
               /\ (/\ after.position # replanned.position
                   /\ CellAt(buildingMap, after.position) = EXIT)
                  => after.isEvacuated

\* the second tick since the reset has left alone a person whom the first had
\* moved onto an Exit
EvacuatedPersonSkipped ==
    /\ tickTrace.ran
    /\ timestep = 2
    /\ \E i \in 1..Len(people) :
          /\ tickTrace.people[i].isEvacuated
          /\ people[i].currentPathIndex > 0
          /\ CellAt(buildingMap, people[i].position) = EXIT

\* C15: resetSimulation clears the fire and returns every person to the
\* position it was added at (under ResetSpec, the Entrance).
ResetReturnsPeopleToStart ==
    [][ResetSimulation =>
          /\ firePositions' = {}
          /\ \A i \in 1..Len(people') : people'[i].position = Entrance]_vars

\* after a reset a person added at the Entrance stands on an Exit, not
\* evacuated and without a path
PersonLeftOnExitAfterReset ==
    /\ timestep = 0
    /\ firePositions = {}
    /\ \E i \in 1..Len(people) :
          /\ CellAt(buildingMap, people[i].position) = EXIT
          /\ ~people[i].isEvacuated
          /\ people[i].path = <<>>

\* the fire-free A* path to an Exit that replanning would assign to a person
\* standing at position, Null when no Exit gives one
WayOut(position, map) ==
    BestCandidate(getExitPositions(map), 1, position, map, Null)

\* C19: a trapped person is re-evaluated at each tick: when a tick ends, a
\* person who is trapped and not evacuated has no fire-free A* path from its
\* position to any Exit.
TrappedMeansNoWayOut ==
    tickTrace.ran =>
        \A i \in 1..Len(people) :
            (people[i].trapped /\ ~people[i].isEvacuated) =>
                WayOut(people[i].position, buildingMap) = Null

\* a tick has left a person trapped on a path that leads to an Exit through
\* a building in which nothing burns
TrappedWithOpenWay ==
    /\ tickTrace.ran
    /\ firePositions = {}
    /\ \E i \in 1..Len(people) :
          /\ people[i].trapped
          /\ ~people[i].isEvacuated
          /\ IsFireFreeExitPath(people[i].path, buildingMap)
          /\ tickTrace.replanned[i] = tickTrace.people[i]

\* the values a call of the pathfinding function name with the extra arguments
\* a can return on start, goal and buildingMap
Outcomes(name, a) ==
    CASE name = "findPathAStar" -> {findPathAStar(start, goal, buildingMap)}
      [] name = "findPathDijkstra" -> {findPathDijkstra(start, goal, buildingMap)}
      [] name = "findPathBFS" -> {findPathBFS(start, goal, buildingMap)}
      [] name = "findPathDFS" -> {findPathDFS(start, goal, buildingMap)}
      [] name = "findPathGreedyBestFirst" ->
            {findPathGreedyBestFirst(start, goal, buildingMap)}
      [] name = "findPathBidirectional" ->
            {findPathBidirectional(start, goal, buildingMap)}
      [] name = "findPathJPS" -> {findPathJPS(start, goal, buildingMap)}
      [] name = "findPathThetaStar" -> {findPathThetaStar(start, goal, buildingMap)}
      [] name = "findPathFringe" -> {findPathFringe(start, goal, buildingMap)}
      [] name = "findPathAStarWeighted" ->
            {findPathAStarWeighted(start, goal, buildingMap, a[1])}
      [] name = "findPathAnytimeAStar" ->
            findPathAnytimeAStar(start, goal, buildingMap, a[1])
      [] name = "findPathRandomWalk" ->
            findPathRandomWalk(start, goal, buildingMap, a[1])
      [] name = "findPathACO" -> findPathACO(start, goal, buildingMap, a[1], a[2])
      [] name = "findPathGA" -> findPathGA(start, goal, buildingMap, a[1], a[2])
      [] name = "findPathSwarm" -> findPathSwarm(start, goal, buildingMap, a[1], a[2])

\* C16: a call of any pathfinding function leaves the grid as it was, and a
\* second call with the same start, goal, grid and further arguments returns
\* what the first returned: the same path, or null both times.
RepeatedCallReturnsSamePath ==
    [][algorithm' \in PathfindingFunctions =>
          /\ buildingMap' = buildingMap
          /\ Outcomes(algorithm', args') = {result'}]_vars

\* findPathRandomWalk has returned a path where another call with the same
\* arguments can return a different path
RandomWalkCouldDiffer ==
    /\ algorithm = "findPathRandomWalk"
    /\ IsPath(result)
    /\ \E r \in findPathRandomWalk(start, goal, buildingMap, args[1]) :
          IsPath(r) /\ r # result /\ Len(r) = Len(result)

RECURSIVE FloorChanges(_)
\* the number of consecutive pairs of path whose floors differ
FloorChanges(path) ==
    IF Len(path) <= 1 THEN 0
    ELSE (IF path[1][3] # path[2][3] THEN 1 ELSE 0) + FloorChanges(Tail(path))

\* C17: on a two-floor 5x5 grid joined only by the Stairs column at (2,2),
\* findPathAStar from (0,0,1) to (4,4,0) returns a path with exactly one floor
\* change, in which (2,2,1) is immediately followed by (2,2,0).
AStarTakesTheStairColumn ==
    algorithm = "findPathAStar" =>
        /\ IsPath(result)
        /\ FloorChanges(result) = 1
        /\ \E i \in 1..(Len(result) - 1) :
              result[i] = <<2, 2, 1>> /\ result[i + 1] = <<2, 2, 0>>

\* findPathAStar has returned a path from (0,0,1) to (4,4,0) on the grid
\* without any Wall or Fire
AStarCrossedOpenFloors ==
    /\ algorithm = "findPathAStar"
    /\ IsPath(result)
    /\ result[1] = <<0, 0, 1>>
    /\ result[Len(result)] = <<4, 4, 0>>
    /\ \A p \in MapPositions(buildingMap) : CellAt(buildingMap, p) \in {WALKABLE, STAIRS}

\* C18 as stated: calculatePathStats returns all zeros for the empty and the
\* one-position path, floorChanges is the number of consecutive pairs on
\* different floors, and length is the sum of the movement costs of the
\* consecutive pairs.
StatsLengthIsSumOfCosts ==
    algorithm = "calculatePathStats" =>
        LET path == args[1]
        IN /\ Len(path) <= 1 =>
                result = [length |-> 0, floorChanges |-> 0, estimatedTime |-> 0]
           /\ result.floorChanges = FloorChanges(path)
           /\ result.length = PathCost(path)

\* C18 as amended: the same, with length the whole number of hundredths
\* nearest to the sum of the movement costs of the consecutive pairs.
StatsLengthIsRoundedSumOfCosts ==
    algorithm = "calculatePathStats" =>
        LET path == args[1]
        IN /\ Len(path) <= 1 =>
                result = [length |-> 0, floorChanges |-> 0, estimatedTime |-> 0]
           /\ result.floorChanges = FloorChanges(path)
           /\ result.length % 10000 = 0
           /\ 2 * Abs(result.length - PathCost(path)) < 10000

\* calculatePathStats has measured a path of a diagonal step and a floor
\* change whose length is not the sum of its costs
StatsOfDiagonalThenStairs ==
    /\ algorithm = "calculatePathStats"
    /\ Len(args[1]) = 3
    /\ getMovementCost(args[1][1], args[1][2]) = 1414000
    /\ result.floorChanges = 1
    /\ result.length = 7410000
    /\ result.length # PathCost(args[1])

\* C20: any path returned by findPathAStar, findPathAStarWeighted,
\* findPathGreedyBestFirst, findPathBFS, findPathDFS or findPathRandomWalk
\* begins at start, ends at goal, contains no position twice, and each
\* position after the first is among getNeighbors of the one before it, so
\* none of them is a Wall or Fire cell.
ReturnedPathIsLegalAndSimple ==
    (/\ algorithm \in {"findPathAStar", "findPathAStarWeighted",
                        "findPathGreedyBestFirst", "findPathBFS", "findPathDFS",
                        "findPathRandomWalk"}
     /\ IsPath(result))
    => /\ IsLegalPath(result, start, goal, buildingMap)
       /\ \A i, j \in 1..Len(result) : result[i] = result[j] => i = j
       /\ \A i \in 2..Len(result) :
             CellAt(buildingMap, result[i]) \notin {WALL, FIRE}

\* findPathGreedyBestFirst has returned a path of at least three positions
\* on a map with a Fire cell
GreedyWentAroundFire ==
    /\ algorithm = "findPathGreedyBestFirst"
    /\ IsPath(result)
    /\ Len(result) >= 3
    /\ \E p \in MapPositions(buildingMap) : CellAt(buildingMap, p) = FIRE

\* the indices, in scan order, of the exits to which findPathAStar returns a
\* path from position that holds no Fire cell
FireFreeExits(position, map) ==
    LET exits == getExitPositions(map)
    IN { k \in 1..Len(exits) :
           LET candidate == findPathAStar(position, exits[k], map)
           IN IsPath(candidate) /\ \A j \in 1..Len(candidate) :
                                      CellAt(map, candidate[j]) # FIRE }

\* C21: the replanning step of a tick gives a person with a stale path the A*
\* path of the fewest positions among the fire-free A* paths from its position
\* to the exits (the first exit in scan order on ties), with progress index 0
\* and trapped cleared; when no exit gives such a path it sets trapped and
\* leaves path and progress index alone; a person whose path is not stale
\* keeps path, progress index and trapped flag.
ReplanningPicksShortestFireFreePath ==
    tickTrace.ran =>
        \A i \in 1..Len(tickTrace.people) :
            LET before == tickTrace.people[i]
                after == tickTrace.replanned[i]
                exits == getExitPositions(buildingMap)
                free == FireFreeExits(before.position, buildingMap)
                PathTo(k) == findPathAStar(before.position, exits[k], buildingMap)
            IN IF IsStale(before, buildingMap)
               THEN IF free # {}
                    THEN \E k \in free :
                           /\ \A j \in free : Len(PathTo(k)) <= Len(PathTo(j))
                           /\ \A j \in free : j < k => Len(PathTo(k)) < Len(PathTo(j))
                           /\ after.path = PathTo(k)
                           /\ after.currentPathIndex = 0
                           /\ ~after.trapped
                    ELSE /\ after.trapped
                         /\ after.path = before.path
                         /\ after.currentPathIndex = before.currentPathIndex
               ELSE /\ after.path = before.path
                    /\ after.currentPathIndex = before.currentPathIndex
                    /\ after.trapped = before.trapped

\* a tick has replanned a person whose path was stale and to whom two exits
\* offered fire-free paths of the same length
ReplannedWithTwoEqualExits ==
    /\ tickTrace.ran
    /\ \E i \in 1..Len(tickTrace.people) :
          LET before == tickTrace.people[i]
              exits == getExitPositions(buildingMap)
              free == FireFreeExits(before.position, buildingMap)
          IN /\ IsStale(before, buildingMap)
             /\ ~before.isEvacuated
             /\ Cardinality(free) = 2
             /\ \A j, k \in free :
                   Len(findPathAStar(before.position, exits[j], buildingMap))
                     = Len(findPathAStar(before.position, exits[k], buildingMap))
             /\ tickTrace.replanned[i].path # before.path

CanAdvance(person, map) ==
    /\ ~person.isEvacuated /\ ~person.trapped
    /\ person.currentPathIndex + 2 <= Len(person.path)
    /\ CellAt(map, person.path[person.currentPathIndex + 2]) # FIRE

ResetRestoresTheGrid ==
    [][ResetSimulation =>
          /\ firePositions' = {}
          /\ \A p \in BuildingPositions : CellAt(buildingMap', p) # FIRE
          /\ buildingMap' = generateBuildingLayout(BuildW, BuildH, BuildF)
          /\ ~isSimulationRunning'
          /\ simulationSubscription' # "open"
          /\ timestep' = 0]_vars

\* a person whom a tick left trapped by a fire stands in a building that a
\* reset has restored to its layout
TrappedPersonInRestoredBuilding ==
    /\ timestep = 0
    /\ firePositions = {}
    /\ ~isSimulationRunning
    /\ tickTrace = NoTick
    /\ buildingMap = generateBuildingLayout(BuildW, BuildH, BuildF)
    /\ \E i \in 1..Len(people) : people[i].trapped

\* C25: findPathAnytimeAStar runs at most 5 weighted searches (weights 2.0,
\* 1.6, 1.28, 1.024, 1.0); with a positive time budget at least one search
\* runs, so it returns no path only if the goal is unreachable; and the path
\* of a run the budget does not cut short, the path of findPathAStarWeighted
\* with weight 1.0, is the path of findPathAStar.
AnytimeSearchesAtLeastOnce ==
    algorithm = "findPathAnytimeAStar" =>
        /\ AnytimeEpsilons(2000) = <<2000, 1600, 1280, 1024, 1000>>
        /\ (args[1] > 0 /\ result = Null) => ~Reachable(start, goal, buildingMap)
        /\ findPathAStarWeighted(start, goal, buildingMap, 1000)
             = findPathAStar(start, goal, buildingMap)

\* findPathAnytimeAStar with a budget of 100 ms has returned no path although
\* findPathAStar finds one of more than two positions
AnytimeGaveUpBeforeSearching ==
    /\ algorithm = "findPathAnytimeAStar"
    /\ args = <<100>>
    /\ result = Null
    /\ IsPath(findPathAStar(start, goal, buildingMap))
    /\ Len(findPathAStar(start, goal, buildingMap)) > 2

RECURSIVE WalksFrom(_, _, _, _)
\* the walks that extend walk by at most n steps, each to a neighbour not yet
\* on the walk, and do not go on from q
WalksFrom(walk, n, q, map) ==
    LET last == walk[Len(walk)]
        unvisited == SeqToSet(getNeighbors(last, map)) \ SeqToSet(walk)
    IN {walk} \cup
       (IF n = 0 \/ last = q THEN {}
        ELSE UNION { WalksFrom(Append(walk, next), n - 1, q, map) : next \in unvisited })

\* C26: findPathRandomWalk returns the walked path whenever the walk stands
\* on the goal after k <= maxSteps steps, and returns no path only when the
\* walk has no unvisited neighbour left or would need more than maxSteps
\* steps.
RandomWalkSucceedsWithinMaxSteps ==
    algorithm = "findPathRandomWalk" =>
        LET maxSteps == args[1]
            walks == WalksFrom(<<start>>, maxSteps, goal, buildingMap)
        IN /\ \A walk \in walks :
                 walk[Len(walk)] = goal =>
                     walk \in findPathRandomWalk(start, goal, buildingMap, maxSteps)
           /\ result = Null =>
                 \E walk \in walks :
                     /\ walk[Len(walk)] # goal
                     /\ \/ Len(walk) - 1 = maxSteps
                        \/ SeqToSet(getNeighbors(walk[Len(walk)], buildingMap))
                             \subseteq SeqToSet(walk)

\* findPathRandomWalk with maxSteps 1 has returned no path although the goal
\* is the only cell the walk can step to from start
RandomWalkGaveUpOnTheGoal ==
    /\ algorithm = "findPathRandomWalk"
    /\ args = <<1>>
    /\ result = Null
    /\ SeqToSet(getNeighbors(start, buildingMap)) = {goal}

\* C27: any path findPathGA returns begins at start, ends at goal and moves
\* by legal single moves only; a crossover child is never returned unless it
\* is such a path.
GAReturnsLegalPath ==
    (algorithm = "findPathGA" /\ IsPath(result))
        => IsLegalPath(result, start, goal, buildingMap)

\* findPathGA has returned the two positions start and goal, which are not
\* one move apart
GAReturnedCrossoverChild ==
    /\ algorithm = "findPathGA"
    /\ result = <<start, goal>>
    /\ ~IsMove(start, goal, buildingMap)

\* C28: in a building where nothing burns, a person from whose position an A*
\* path to some Exit exists, a person standing on an Exit or a Stairs cell
\* included, is evacuated after at most as many ticks as its assigned path
\* has positions: whoever is not evacuated after a tick holds a path longer
\* than the number of ticks so far.
EvacuatedWithinPathLength ==
    \A i \in 1..Len(people) :
        (/\ firePositions = {}
         /\ timestep >= 1
         /\ WayOut(people[i].position, buildingMap) # Null
         /\ ~people[i].isEvacuated)
        => /\ people[i].path # <<>>
           /\ timestep < Len(people[i].path)

\* two ticks have passed over a person standing on an Exit cell, with the
\* path of that one position, who is not evacuated
PersonOnExitNeverEvacuated ==
    /\ timestep = 2
    /\ firePositions = {}
    /\ \E i \in 1..Len(people) :
          /\ CellAt(buildingMap, people[i].position) = EXIT
          /\ people[i].path = <<people[i].position>>
          /\ ~people[i].isEvacuated

\* C29: when the movement of a tick starts, no person who is neither
\* evacuated nor trapped and holds a path has a Fire cell on it at or after
\* its progress index; so the movement never finds the next waypoint on fire
\* (it leaves path and trapped flag of everybody as the replanning set them)
\* and never moves a person onto a Fire cell.
MoverNeverMeetsFire ==
    tickTrace.ran =>
        \A i \in 1..Len(people) :
            LET replanned == tickTrace.replanned[i]
            IN /\ (/\ ~replanned.isEvacuated /\ ~replanned.trapped
                    /\ replanned.path # <<>>)
                    => \A j \in (replanned.currentPathIndex + 1)..Len(replanned.path) :
                          CellAt(buildingMap, replanned.path[j]) # FIRE
               /\ people[i].path = replanned.path
               /\ people[i].trapped = replanned.trapped
               /\ people[i].position # replanned.position
                    => CellAt(buildingMap, people[i].position) # FIRE

\* a tick has moved a person along its path onto a cell beside a burning one
PersonWalkedPastFire ==
    /\ tickTrace.ran
    /\ \E i \in 1..Len(people) :
          /\ people[i].position # tickTrace.replanned[i].position
          /\ people[i].path = tickTrace.people[i].path
          /\ \E k \in firePositions :
                SameFloorAdjacent(keyToPosition(k), people[i].position)

\* C30: after any sequence of initializeBuilding, startFire, ticks and
\* resetSimulation, a position is in firePositions if and only if the grid
\* cell at that position is Fire.
FireSetMatchesGrid ==
    \A p \in BuildingPositions :
        positionToKey(p) \in firePositions <=> CellAt(buildingMap, p) = FIRE

\* a fire lit after a reset has spread in a tick: two cells burn, one of
\* them ignited by the tick, in a building where a person was trapped before
FireSetAfterResetAndSpread ==
    /\ tickTrace.ran
    /\ tickTrace.ignited # {}
    /\ timestep = 1
    /\ Cardinality(firePositions) = 2
    /\ \E i \in 1..Len(tickTrace.people) : tickTrace.people[i].trapped

====
